---- MODULE Spec2Model ----
(***************************************************************************)
(* PTY multiplexer daemon (system/ptymaster/pty_service.py) and its client *)
(* library (system/ptymaster/session_manager.py).                          *)
(*                                                                         *)
(* Threads: one handler per accepted connection (PTYService._handle_client)*)
(* one reader per PTYSession (PTYSession._read_from_pty), one client per   *)
(* connection (a raw byte client such as socat, or PTYClient).             *)
(*                                                                         *)
(* A stream carries symbols.  A symbol is one JSON text as produced by a   *)
(* single json.dumps(...).encode() (kind "json"), one byte of other input  *)
(* (kinds "num", "txt", "bin", "nl") or one chunk of PTY output ("pty").   *)
(*                                                                         *)
(* Spec is the daemon with its clients.  ClientSpec is one PTYClient       *)
(* object with its receive thread.  TermSpec is one TerminalBuffer         *)
(* (system/ui/widgets/terminal.py) under write, resize and scrolling;      *)
(* ScrollSpec is a TerminalBuffer fed more lines than its scrollback holds.*)
(***************************************************************************)
EXTENDS Integers, Sequences, FiniteSets, TLC

\* ----------------------------------------------------------------- bounds
NSock == 2          \* connections made to the daemon during a run
MaxSess == 2        \* PTYSession objects constructed during a run
MaxOut == 2         \* chunks of output a shell produces when one client is studied
PairOut == 1        \* chunks of output a shell produces when two clients are
SockBuf == 3        \* symbols a socket's receive queue holds before send blocks

Socks == 1..NSock
Sess == 1..MaxSess
SessionIds == {"default", "work"}
DefaultRows == 24   \* _setup_terminal, line 37
DefaultCols == 80
USHORT_MAX == 65535 \* struct format 'H'
NoSession == 0      \* Python's None for `session`, and "id not in self.sessions"
NoObject == "None"  \* Python's None for an object that was not constructed

\* ---------------------------------------------------------------- symbols
Sym(k, type, sid, data, a, b) ==
  [k |-> k, type |-> type, sid |-> sid, data |-> data, a |-> a, b |-> b]

\* json.dumps({'type': 'connect', 'session_id': id}).encode('utf-8')
ConnectMsg(id) == Sym("json", "connect", id, "", 0, 0)
\* json.dumps({'type': 'input', 'data': d}).encode('utf-8')
InputMsg(d) == Sym("json", "input", "", d, 0, 0)
\* json.dumps({'type': 'resize', 'rows': r, 'cols': c}).encode('utf-8')
ResizeMsg(r, c) == Sym("json", "resize", "", "", r, c)
\* a JSON object whose type the daemon does not know
OtherMsg == Sym("json", "ping", "", "", 0, 0)
\* json.dumps({'type': 'connected', 'session_id': id}).encode('utf-8')
ConnectedMsg(id) == Sym("json", "connected", id, "", 0, 0)
\* one byte: a digit (a JSON number when alone), a letter, 0xff, newline
NumByte == Sym("num", "", "", "1", 0, 0)
TxtByte(ch) == Sym("txt", "", "", ch, 0, 0)
BinByte == Sym("bin", "", "", "", 0, 0)
NlByte == Sym("nl", "", "", "", 0, 0)
\* the k-th chunk os.read returned on the master of session object s
PtyChunk(s, n) == Sym("pty", "", "", "", s, n)

\* str.strip() / the whitespace json.loads skips around a document
RECURSIVE StripL(_)
StripL(q) == IF q # <<>> /\ Head(q).k = "nl" THEN StripL(Tail(q)) ELSE q
RECURSIVE StripR(_)
StripR(q) ==
  IF q # <<>> /\ q[Len(q)].k = "nl" THEN StripR(SubSeq(q, 1, Len(q) - 1)) ELSE q
Strip(q) == StripR(StripL(q))

\* json.loads(data.decode('utf-8')): "raw" when decoding or parsing raises,
\* "dict" for one JSON object, "scalar" for a JSON document that is no object
Loads(q) ==
  LET core == Strip(q) IN
  IF \E i \in 1..Len(q) : q[i].k = "bin" THEN "raw"
  ELSE IF Len(core) = 1 /\ core[1].k = "json" THEN "dict"
  ELSE IF core # <<>> /\ \A i \in 1..Len(core) : core[i].k = "num" THEN "scalar"
  ELSE "raw"

LoadsMsg(q) == Strip(q)[1]

\* message.get('session_id', 'default'): "" stands for a missing key
SessionIdOf(m) == IF m.sid = "" THEN "default" ELSE m.sid

\* message.get('data', '').encode('utf-8')
InputBytes(m) == IF m.data = "" THEN <<>> ELSE <<TxtByte(m.data)>>

\* list.remove(x): drops the first occurrence
RECURSIVE RemoveFirst(_, _)
RemoveFirst(q, x) ==
  IF q = <<>> THEN <<>>
  ELSE IF Head(q) = x THEN Tail(q)
  ELSE <<Head(q)>> \o RemoveFirst(Tail(q), x)

InSeq(q, x) == \E i \in 1..Len(q) : q[i] = x

\* list.count(x)
Count(q, x) == Cardinality({i \in 1..Len(q) : q[i] = x})

\* ------------------------------------------------------------------ state
VARIABLES
  sessions,   \* PTYService.sessions: session id -> session object, or NoSession
  nextSess,   \* the next PTYSession object to be constructed
  clients,    \* PTYSession.clients, a list of sockets
  running,    \* PTYSession.running
  rpc,        \* where the session's reader thread is
  rdata,      \* reader: the chunk it read
  rsnap,      \* reader: what is left of self.clients[:] to send to
  nRead,      \* chunks read from the session's master so far
  ptyIn,      \* what was written to the session's master: <<socket, symbol>>
  winsize,    \* the window size set on the session's slave: <<rows, cols>>
  hpc,        \* where the connection's handler thread is
  hsid,       \* handler local session_id
  hsess,      \* handler local session
  hnew,       \* handler: the PTYSession just constructed, not yet stored
  dOpen,      \* the daemon's socket object of the connection is open
  pOpen,      \* the client's end of the connection is open
  toD,        \* symbols sent by the client, not yet received by the handler
  sent,       \* every symbol the daemon sent on the connection, in order
  rpos,       \* how many symbols of sent the client has received
  quota,      \* how many chunks of output each shell produces in this run
  kind,       \* "raw" (byte client), "mute" (one that never reads), "lib" (PTYClient)
  script,     \* what the client still means to send
  cst,        \* where the client is
  sink,       \* what the client delivered to its sink / data_callback
  env,        \* what the run's environment does: see InitEnv
  shell,      \* the session's child: "none", "alive", "zombie" (ended), "reaped"
  mOpen,      \* the session's master_fd is open in the daemon
  sOpen,      \* the session's slave_fd is open in the daemon
  mCloses,    \* calls of os.close(self.master_fd) made so far
  sCloses,    \* calls of os.close(self.slave_fd) made so far
  closedRet,  \* a call of PTYSession.close on the session has returned
  srvRunning, \* PTYService.running
  listening,  \* PTYService.server_socket is open
  sockFile,   \* the file at socket_path exists
  acc,        \* where the accept loop of PTYService.start is
  cpc,        \* where the callers of stop() and of close_session() are
  ccur,       \* the session whose close() the caller is in
  sit,        \* stop(): the ids its loop over self.sessions has yet to visit
  ssize,      \* stop(): the size of self.sessions when the loop began
  attAt,      \* chunks already broadcast when the socket was last attached
  typed,      \* the bytes PTYClient.send_input has sent as Input frames
  first,      \* what the handler's first received chunk was
  tried,      \* which construction of a PTYSession the handler last began
  tb,         \* the TerminalBuffer object of the terminal widget, or NoObject
  tbPrev,     \* the TerminalBuffer as it was before the last call on it
  tbLast,     \* the last call made on the TerminalBuffer
  tbOps,      \* calls made on the TerminalBuffer so far
  pty_client, \* the PTYClient object, or NoObject
  socks,      \* the socket objects PTYClient.connect created, in order
  threads,    \* the receive threads PTYClient.connect started, in order
  pcCall,     \* where the thread that calls the PTYClient's methods is
  pcLast,     \* the last call of a PTYClient method that ended
  pcCalls     \* calls of PTYClient methods begun so far

vars == <<sessions, nextSess, clients, running, rpc, rdata, rsnap, nRead, ptyIn, winsize,
          hpc, hsid, hsess, hnew, dOpen, pOpen, toD, sent, rpos, quota, kind, script,
          cst, sink, attAt, typed, first, env, shell, mOpen, sOpen, mCloses, sCloses,
          closedRet, srvRunning, listening, sockFile, acc, cpc, ccur, sit, ssize, tried,
          tb, tbPrev, tbLast, tbOps, pty_client, socks, threads, pcCall, pcLast, pcCalls>>

daemonVars == <<sessions, nextSess, clients, running, rpc, rdata, rsnap, nRead, ptyIn,
                winsize, hpc, hsid, hsess, hnew, dOpen, pOpen, toD, sent, rpos, quota,
                kind, script, cst, sink, attAt, typed, first, env, shell, mOpen, sOpen,
                mCloses, sCloses, closedRet, srvRunning, listening, sockFile, acc, cpc,
                ccur, sit, ssize, tried>>
termVars == <<tb, tbPrev, tbLast, tbOps>>
pcVars == <<pty_client, socks, threads, pcCall, pcLast, pcCalls>>
uiVars == <<termVars, pcVars>>

sessVars == <<clients, running, rpc, rdata, rsnap, nRead>>
ptyVars == <<ptyIn, winsize>>
handVars == <<hpc, hsid, hsess, hnew>>
sockVars == <<dOpen, pOpen, toD, sent, rpos>>
cliVars == <<quota, kind, script, cst, sink>>
histVars == <<attAt, typed, first>>
shellVars == <<shell, mOpen, sOpen, mCloses, sCloses, closedRet>>
srvVars == <<srvRunning, listening, sockFile, acc>>
admVars == <<cpc, ccur, sit, ssize>>

\* the symbols queued on the connection for the client
Unread(c) == SubSeq(sent[c], rpos[c] + 1, Len(sent[c]))

\* `with self.lock` is held by the reader from line 79 to the end of its loop
\* over the snapshot; every other holder takes and releases it in one step
LockHeld(s) == rpc[s] = "send"

\* chunks whose broadcast has begun
NBcast(s) == IF rpc[s] = "lock" THEN nRead[s] - 1 ELSE nRead[s]

\* socket.send(data) on the daemon's socket object of connection c
SendOutcome(c, n) ==
  IF ~dOpen[c] THEN "badf"          \* OSError(EBADF): the object was closed
  ELSE IF ~pOpen[c] THEN "pipe"     \* BrokenPipeError / ConnectionResetError
  ELSE IF Len(Unread(c)) + n > SockBuf THEN "block"
  ELSE "ok"

\* the client has a receive loop running on the connection: a byte client
\* that reads its socket, or PTYClient._receive_loop (lines 53-67) after
\* connect() has returned True.  Such a client takes what arrives at once.
Reading(c) ==
  IF kind[c] = "lib" THEN cst[c] = "up" ELSE kind[c] = "raw" /\ cst[c] = "open"

\* rpos and sink after `data` has been queued on connection c
RposAfter(c, data) ==
  [rpos EXCEPT ![c] = IF Reading(c) THEN Len(sent[c]) + Len(data) ELSE @]
SinkAfter(c, data) ==
  [sink EXCEPT ![c] = IF Reading(c) THEN @ \o data ELSE @]

\* ---------------------------------------------------------------- clients
\* what one send() call of a byte client carries
RawSends ==
  { <<ConnectMsg("default")>>, <<ConnectMsg("work")>>, <<InputMsg("a")>>, <<ResizeMsg(30, 100)>>,
    <<ResizeMsg(70000, 100)>>, <<OtherMsg>>, <<NumByte>>, <<TxtByte("x")>>, <<BinByte>> }

\* a byte client on its own: at most two send() calls, a connect among them
SoloRaw ==
  { <<m>> : m \in RawSends }
  \cup { <<<<ConnectMsg("default")>>, m>> : m \in RawSends }
  \cup { <<m, <<ConnectMsg("default")>>>> : m \in RawSends }

\* PTYClient on its own: connect(session_id), then send_input / resize_terminal
SoloLib ==
  { <<<<ConnectMsg("default")>>>>,
    <<<<ConnectMsg("default")>>, <<InputMsg("a")>>, <<InputMsg("b")>>>>,
    <<<<ConnectMsg("default")>>, <<ResizeMsg(30, 100)>>>>,
    <<<<ConnectMsg("default")>>, <<ResizeMsg(70000, 100)>>>> }

\* a byte client that never reads its socket
SoloMute == { <<<<ConnectMsg("default")>>>> }

\* two clients of the same session id: <<kind, script>> of the first, of the second
PairFirst ==
  { <<"raw", <<<<ConnectMsg("default")>>>>>>,
    <<"raw", <<<<ConnectMsg("default")>>, <<ConnectMsg("default")>>>>>> }
PairSecond ==
  { <<"raw", <<<<ConnectMsg("default")>>>>>> }

\* the threads that call into the daemon from outside the handlers:
\* "stop" calls PTYService.stop(), "cs" calls PTYService.close_session("default")
Closers == {"stop", "cs"}

\* how the k-th construction of a PTYSession ends: pty.openpty() raises (line
\* 18), os.fork() raises (line 54), os.execv raises in the child (line 69)
Fates == {"ok", "openpty", "fork", "exec"}

\* a run's environment: fate[k] for the k-th PTYSession construction; whether
\* SIGTERM ends the shell (an interactive bash ignores it); whether the shell
\* ends on its own (the user types `exit`); which outside calls are made
EnvOf(fate, term, exits, stop, close) ==
  [fate |-> fate, term |-> term, exits |-> exits, stop |-> stop, close |-> close]
QuietEnv == EnvOf([s \in Sess |-> "ok"], TRUE, FALSE, FALSE, FALSE)

InitDaemon ==
  /\ sessions = [id \in SessionIds |-> NoSession]
  /\ nextSess = 1
  /\ clients = [s \in Sess |-> <<>>]
  /\ running = [s \in Sess |-> FALSE]
  /\ rpc = [s \in Sess |-> "none"]
  /\ rdata = [s \in Sess |-> 0]
  /\ rsnap = [s \in Sess |-> <<>>]
  /\ nRead = [s \in Sess |-> 0]
  /\ ptyIn = [s \in Sess |-> <<>>]
  /\ winsize = [s \in Sess |-> <<DefaultRows, DefaultCols>>]
  /\ hpc = [c \in Socks |-> "none"]
  /\ hsid = [c \in Socks |-> ""]
  /\ hsess = [c \in Socks |-> NoSession]
  /\ hnew = [c \in Socks |-> NoSession]
  /\ dOpen = [c \in Socks |-> FALSE]
  /\ pOpen = [c \in Socks |-> FALSE]
  /\ toD = [c \in Socks |-> <<>>]
  /\ sent = [c \in Socks |-> <<>>]
  /\ rpos = [c \in Socks |-> 0]
  /\ cst = [c \in Socks |-> "init"]
  /\ sink = [c \in Socks |-> <<>>]
  /\ attAt = [c \in Socks |-> 0]
  /\ typed = [c \in Socks |-> <<>>]
  /\ first = [c \in Socks |-> "none"]
  /\ tried = [c \in Socks |-> 0]
  /\ shell = [s \in Sess |-> "none"]
  /\ mOpen = [s \in Sess |-> FALSE]
  /\ sOpen = [s \in Sess |-> FALSE]
  /\ mCloses = [s \in Sess |-> 0]
  /\ sCloses = [s \in Sess |-> 0]
  /\ closedRet = [s \in Sess |-> FALSE]
  /\ srvRunning = TRUE
  /\ listening = TRUE
  /\ sockFile = TRUE
  /\ acc = "accept"
  /\ cpc = [k \in Closers |-> "idle"]
  /\ ccur = [k \in Closers |-> NoSession]
  /\ sit = <<>>
  /\ ssize = 0

\* the first connection carries the client under study, the others are
\* second clients of the same session (InitPair) or stay silent (InitSolo)
InitSolo ==
  /\ env = QuietEnv
  /\ quota = MaxOut
  /\ kind \in [Socks -> {"raw", "mute", "lib"}]
  /\ \A c \in Socks : c > 1 => kind[c] = "raw"
  /\ script \in [Socks -> SoloRaw \cup SoloLib \cup {<<>>}]
  /\ \A c \in Socks : c > 1 => script[c] = <<>>
  /\ script[1] \in (CASE kind[1] = "lib" -> SoloLib
                       [] kind[1] = "mute" -> SoloMute
                       [] OTHER -> SoloRaw)

InitPair ==
  /\ env = QuietEnv
  /\ quota = PairOut
  /\ kind \in [Socks -> {"raw"}]
  /\ script \in [Socks -> {p[2] : p \in PairFirst \cup PairSecond}]
  /\ <<kind[1], script[1]>> \in PairFirst
  /\ \A c \in Socks : c > 1 => <<kind[c], script[c]>> \in PairSecond

\* the runs in which stop() and close_session("default") are called or the
\* shell ends: <<what the client sends, term, exits, stop, close, quota>>
AdminRuns ==
  LET one == <<<<ConnectMsg("default")>>>>
      two == <<<<ConnectMsg("default")>>, <<ConnectMsg("work")>>>>
  IN { <<one, TRUE, FALSE, TRUE, FALSE, PairOut>>,
       <<two, TRUE, FALSE, TRUE, FALSE, 0>>,
       <<one, TRUE, FALSE, FALSE, TRUE, PairOut>>,
       <<one, TRUE, FALSE, TRUE, TRUE, PairOut>>,
       <<one, FALSE, FALSE, TRUE, FALSE, PairOut>>,
       <<one, FALSE, TRUE, FALSE, TRUE, PairOut>>,
       <<one, FALSE, TRUE, FALSE, FALSE, PairOut>> }

\* a byte client and a second connection that stays silent, in one of AdminRuns
InitAdmin ==
  /\ kind = [c \in Socks |-> "raw"]
  /\ \E r \in AdminRuns :
       /\ quota = r[6]
       /\ script = [c \in Socks |-> IF c = 1 THEN r[1] ELSE <<>>]
       /\ env = EnvOf([s \in Sess |-> "ok"], r[2], r[3], r[4], r[5])

\* two byte clients of one id, the first construction of a PTYSession fails
InitFault ==
  /\ quota = PairOut
  /\ kind = [c \in Socks |-> "raw"]
  /\ script = [c \in Socks |-> <<<<ConnectMsg("default")>>>>]
  /\ \E f \in Fates \ {"ok"} :
       env = EnvOf([s \in Sess |-> IF s = 1 THEN f ELSE "ok"], TRUE, FALSE, FALSE, FALSE)

\* the daemon process constructs no TerminalBuffer and no PTYClient
InitNoTerminal ==
  /\ tb = NoObject
  /\ tbPrev = NoObject
  /\ tbLast = NoObject
  /\ tbOps = 0
InitNoClient ==
  /\ pty_client = NoObject
  /\ socks = <<>>
  /\ threads = <<>>
  /\ pcCall = NoObject
  /\ pcLast = NoObject
  /\ pcCalls = 0

Init ==
  /\ InitDaemon
  /\ InitSolo \/ InitPair \/ InitAdmin \/ InitFault
  /\ InitNoTerminal
  /\ InitNoClient

\* socket.connect() by the client; accept() and Thread(_handle_client).start()
\* by PTYService.start
ClientOpen(c) ==
  /\ cst[c] = "init"
  /\ listening /\ acc = "accept"
  /\ acc' = IF srvRunning THEN "accept" ELSE "stopped"   \* `while self.running`
  /\ \A d \in Socks : d < c => cst[d] # "init"
  /\ cst' = [cst EXCEPT ![c] = "open"]
  /\ pOpen' = [pOpen EXCEPT ![c] = TRUE]
  /\ dOpen' = [dOpen EXCEPT ![c] = TRUE]
  /\ hpc' = [hpc EXCEPT ![c] = "recv"]
  /\ UNCHANGED <<uiVars, tried, env, shellVars, srvRunning, listening, sockFile, admVars>>
  /\ UNCHANGED <<sessions, nextSess, sessVars, ptyVars, hsid, hsess, hnew, toD,
                 sent, rpos, quota, kind, script, sink, histVars>>

\* one send() of a byte client; PTYClient.connect's send (then it waits for
\* the reply), PTYClient.send_input and PTYClient.resize_terminal
ClientSend(c) ==
  /\ script[c] # <<>>
  /\ cst[c] \in {"open", "up", "failed", "lost"}
  /\ kind[c] = "lib" => cst[c] # "open" \/ Head(script[c])[1].type = "connect"
  /\ script' = [script EXCEPT ![c] = Tail(@)]
  /\ IF kind[c] = "lib" /\ cst[c] \in {"failed", "lost"}
       THEN \* `if not self.connected or not self.socket: return False`
            UNCHANGED <<toD, cst>>
     ELSE IF ~dOpen[c]
       THEN \* BrokenPipeError: PTYClient sets connected = False
            /\ UNCHANGED toD
            /\ cst' = [cst EXCEPT ![c] = IF kind[c] = "lib" /\ @ = "up" THEN "lost" ELSE @]
     ELSE /\ toD' = [toD EXCEPT ![c] = @ \o Head(script[c])]
          /\ cst' = [cst EXCEPT ![c] = IF kind[c] = "lib" /\ @ = "open" THEN "wait" ELSE @]
  /\ typed' = [typed EXCEPT ![c] =
       IF kind[c] = "lib" /\ cst[c] = "up" /\ dOpen[c] /\ Head(script[c])[1].type = "input"
       THEN @ \o InputBytes(Head(script[c])[1]) ELSE @]
  /\ UNCHANGED <<uiVars, tried, env, shellVars, srvVars, admVars>>
  /\ UNCHANGED <<sessions, nextSess, sessVars, ptyVars, handVars, dOpen, pOpen,
                 sent, rpos, quota, kind, sink, attAt, first>>

\* PTYClient.connect: response = self.socket.recv(1024), then the parse
LibHandshake(c) ==
  /\ kind[c] = "lib" /\ cst[c] = "wait"
  /\ Unread(c) # <<>> \/ ~dOpen[c]
  /\ rpos' = [rpos EXCEPT ![c] = Len(sent[c])]
  /\ cst' = [cst EXCEPT ![c] =
       IF Loads(Unread(c)) = "dict" /\ LoadsMsg(Unread(c)).type = "connected"
       THEN "up" ELSE "failed"]
  /\ UNCHANGED <<uiVars, tried, env, shellVars, srvVars, admVars>>
  /\ UNCHANGED <<sessions, nextSess, sessVars, ptyVars, handVars, dOpen, pOpen,
                 toD, sent, quota, kind, script, sink, histVars>>

\* PTYClient._receive_loop, lines 57-59 and 67: recv returns b"" once the
\* daemon has closed the connection; the loop ends, connected = False
LibEof(c) ==
  /\ kind[c] = "lib" /\ cst[c] = "up"
  /\ ~dOpen[c]
  /\ cst' = [cst EXCEPT ![c] = "lost"]
  /\ UNCHANGED <<uiVars, tried, env, shellVars, srvVars, admVars>>
  /\ UNCHANGED <<sessions, nextSess, sessVars, ptyVars, handVars, sockVars, quota, kind,
                 script, sink, histVars>>

\* PTYClient.disconnect / a byte client closing its socket, after its last send
ClientClose(c) ==
  /\ cst[c] \in {"open", "up", "failed", "lost"}
  /\ script[c] = <<>>
  /\ cst' = [cst EXCEPT ![c] = "closed"]
  /\ pOpen' = [pOpen EXCEPT ![c] = FALSE]
  /\ UNCHANGED <<uiVars, tried, env, shellVars, srvVars, admVars>>
  /\ UNCHANGED <<sessions, nextSess, sessVars, ptyVars, handVars, dOpen, toD,
                 sent, rpos, quota, kind, script, sink, histVars>>

\* ---------------------------------------------------------------- handler
\* os.write(self.master_fd, data) on behalf of connection c
WriteToPty(s, c, data) ==
  [ptyIn EXCEPT ![s] = @ \o [i \in 1..Len(data) |-> <<c, data[i]>>]]

\* a socket object nothing refers to any more is closed when it is collected:
\* the handler's local is gone, the clients lists are what may still hold it
Referenced(c, cl) == \E s \in Sess : InSeq(cl[s], c)

\* struct.pack('HHHH', rows, cols, 0, 0), line 110: raises struct.error
\* unless both are unsigned 16-bit
Packable(rows, cols) == rows \in 0..USHORT_MAX /\ cols \in 0..USHORT_MAX

\* lines 185-220: recv, json.loads, dispatch on the message.  What is queued
\* stays far below 4096 bytes, so recv(4096) returns all of it.
HRecv(c) ==
  /\ hpc[c] = "recv"
  /\ ~dOpen[c] \/ toD[c] # <<>> \/ ~pOpen[c]
  /\ toD' = [toD EXCEPT ![c] = IF dOpen[c] THEN <<>> ELSE @]
  /\ LET data == toD[c]
         m == LoadsMsg(data)
         how == IF ~dOpen[c] THEN "oserror"          \* recv on a closed socket object
                ELSE IF data = <<>> THEN "eof"       \* `if not data: break`
                ELSE Loads(data)
         joined == hsess[c] # NoSession
     IN
     /\ hpc' = [hpc EXCEPT ![c] =
          CASE how \in {"oserror", "eof"} -> "finally"
            [] how = "scalar" -> "finally"           \* message.get: AttributeError
            [] how = "dict" /\ m.type = "resize" /\ joined /\ ~Packable(m.a, m.b)
                 -> "finally"                        \* struct.error leaves the loop
            [] how = "dict" /\ m.type = "connect" -> "check"
            [] OTHER -> "recv"]
     /\ hsid' = [hsid EXCEPT ![c] =
          IF how = "dict" /\ m.type = "connect" THEN SessionIdOf(m) ELSE @]
     /\ ptyIn' =
          CASE how = "raw" /\ joined /\ mOpen[hsess[c]] ->
                 WriteToPty(hsess[c], c, data)
            [] how = "dict" /\ m.type = "input" /\ joined /\ mOpen[hsess[c]] ->
                 WriteToPty(hsess[c], c, InputBytes(m))
            [] OTHER -> ptyIn                        \* also `except OSError: pass`
     /\ winsize' =
          IF how = "dict" /\ m.type = "resize" /\ joined /\ Packable(m.a, m.b)
             /\ sOpen[hsess[c]]
          THEN [winsize EXCEPT ![hsess[c]] = <<m.a, m.b>>] ELSE winsize
     /\ first' = [first EXCEPT ![c] =
          IF @ # "none" \/ how \in {"oserror", "eof"} THEN @
          ELSE IF how = "dict" /\ m.type = "connect" THEN "connect" ELSE "other"]
  /\ UNCHANGED <<uiVars, tried, env, shellVars, srvVars, admVars>>
  /\ UNCHANGED <<sessions, nextSess, sessVars, hsess, hnew, dOpen, pOpen, sent,
                 rpos, cliVars, attAt, typed>>

\* line 203: `if session_id not in self.sessions`
HCheck(c) ==
  /\ hpc[c] = "check"
  /\ hpc' = [hpc EXCEPT ![c] =
       IF sessions[hsid[c]] = NoSession THEN "create" ELSE "lookup"]
  /\ UNCHANGED <<uiVars, tried, env, shellVars, srvVars, admVars>>
  /\ UNCHANGED <<sessions, nextSess, sessVars, ptyVars, hsid, hsess, hnew,
                 sockVars, cliVars, histVars>>

\* line 204, right-hand side: PTYSession(session_id), lines 16-32
\* pty.openpty() or os.fork() raising OSError ends __init__ and, not being
\* caught at line 222, the handler.  os.execv raising does so in the child
\* only: the child unwinds and ends, the parent has a pid and goes on.
HCreate(c) ==
  /\ hpc[c] = "create"
  /\ nextSess <= MaxSess
  /\ LET f == env.fate[nextSess]
         born == f \in {"ok", "exec"}
     IN
     /\ hnew' = [hnew EXCEPT ![c] = IF born THEN nextSess ELSE @]
     /\ mOpen' = [mOpen EXCEPT ![nextSess] = f # "openpty"]
     /\ sOpen' = [sOpen EXCEPT ![nextSess] = f # "openpty"]
     /\ shell' = [shell EXCEPT ![nextSess] =
          CASE f = "ok" -> "alive" [] f = "exec" -> "zombie" [] OTHER -> "none"]
     /\ running' = [running EXCEPT ![nextSess] = f # "openpty"]
     /\ rpc' = [rpc EXCEPT ![nextSess] = IF born THEN "check" ELSE @]
     /\ hpc' = [hpc EXCEPT ![c] = IF born THEN "store" ELSE "finally"]
  /\ nextSess' = nextSess + 1
  /\ tried' = [tried EXCEPT ![c] = nextSess]
  /\ UNCHANGED <<uiVars, env, mCloses, sCloses, closedRet, srvVars, admVars>>
  /\ UNCHANGED <<sessions, clients, rdata, rsnap, nRead, ptyVars, hsid, hsess,
                 sockVars, cliVars, histVars>>

\* line 204, the assignment: self.sessions[session_id] = <the new session>
HStore(c) ==
  /\ hpc[c] = "store"
  /\ sessions' = [sessions EXCEPT ![hsid[c]] = hnew[c]]
  /\ hpc' = [hpc EXCEPT ![c] = "lookup"]
  /\ UNCHANGED <<uiVars, tried, env, shellVars, srvVars, admVars>>
  /\ UNCHANGED <<nextSess, sessVars, ptyVars, hsid, hsess, hnew, sockVars,
                 cliVars, histVars>>

\* line 206: session = self.sessions[session_id]; KeyError, which line 222
\* does not catch, when the id has left the registry since line 203
HLookup(c) ==
  /\ hpc[c] = "lookup"
  /\ hsess' = [hsess EXCEPT ![c] =
       IF sessions[hsid[c]] = NoSession THEN @ ELSE sessions[hsid[c]]]
  /\ hpc' = [hpc EXCEPT ![c] = IF sessions[hsid[c]] = NoSession THEN "finally" ELSE "add"]
  /\ UNCHANGED <<uiVars, tried, env, shellVars, srvVars, admVars>>
  /\ UNCHANGED <<sessions, nextSess, sessVars, ptyVars, hsid, hnew, sockVars,
                 cliVars, histVars>>

\* PTYSession.add_client, lines 89-92
AddClient(cl, c) == Append(cl, c)

\* line 207: session.add_client(client_socket)
HAdd(c) ==
  /\ hpc[c] = "add"
  /\ ~LockHeld(hsess[c])
  /\ clients' = [clients EXCEPT ![hsess[c]] = AddClient(@, c)]
  /\ attAt' = [attAt EXCEPT ![c] = NBcast(hsess[c])]
  /\ hpc' = [hpc EXCEPT ![c] = "ack"]
  /\ UNCHANGED <<uiVars, tried, env, shellVars, srvVars, admVars>>
  /\ UNCHANGED <<sessions, nextSess, running, rpc, rdata, rsnap, nRead, ptyVars,
                 hsid, hsess, hnew, sockVars, cliVars, typed, first>>

\* lines 210-211: client_socket.send(json.dumps(response).encode() + b'\n')
HAck(c) ==
  /\ hpc[c] = "ack"
  /\ LET out == SendOutcome(c, 2) IN
     /\ out # "block"
     /\ sent' = [sent EXCEPT ![c] =
          IF out = "ok" THEN @ \o <<ConnectedMsg(hsid[c]), NlByte>> ELSE @]
     /\ rpos' = IF out = "ok" THEN RposAfter(c, <<ConnectedMsg(hsid[c]), NlByte>>) ELSE rpos
     /\ sink' = IF out = "ok" THEN SinkAfter(c, <<ConnectedMsg(hsid[c]), NlByte>>) ELSE sink
     /\ hpc' = [hpc EXCEPT ![c] = IF out = "ok" THEN "recv" ELSE "finally"]
  /\ UNCHANGED <<uiVars, tried, env, shellVars, srvVars, admVars>>
  /\ UNCHANGED <<sessions, nextSess, sessVars, ptyVars, hsid, hsess, hnew, dOpen,
                 pOpen, toD, quota, kind, script, cst, histVars>>

\* PTYSession.remove_client, lines 94-99: the list after the call
RemoveClient(cl, c) == IF InSeq(cl, c) THEN RemoveFirst(cl, c) ELSE cl

\* lines 224-226, and the end of the thread
HFinally(c) ==
  /\ hpc[c] = "finally"
  /\ hsess[c] # NoSession => ~LockHeld(hsess[c])
  /\ LET cl == IF hsess[c] = NoSession THEN clients
               ELSE [clients EXCEPT ![hsess[c]] = RemoveClient(@, c)]
         closed == hsess[c] # NoSession /\ InSeq(clients[hsess[c]], c)
     IN
     /\ clients' = cl
     /\ dOpen' = [dOpen EXCEPT ![c] = @ /\ ~closed /\ Referenced(c, cl)]
  /\ hpc' = [hpc EXCEPT ![c] = "done"]
  /\ UNCHANGED <<uiVars, tried, env, shellVars, srvVars, admVars>>
  /\ UNCHANGED <<sessions, nextSess, running, rpc, rdata, rsnap, nRead, ptyVars,
                 hsid, hsess, hnew, pOpen, toD, sent, rpos, cliVars, histVars>>

\* ----------------------------------------------------------------- reader
\* line 73: `while self.running`
RCheck(s) ==
  /\ rpc[s] = "check"
  /\ rpc' = [rpc EXCEPT ![s] = IF running[s] THEN "select" ELSE "done"]
  /\ UNCHANGED <<uiVars, tried, env, shellVars, srvVars, admVars>>
  /\ UNCHANGED <<sessions, nextSess, clients, running, rdata, rsnap, nRead,
                 ptyVars, handVars, sockVars, cliVars, histVars>>

\* lines 75-78: select says ready, os.read returns the shell's next chunk
RSelect(s) ==
  /\ rpc[s] = "select" /\ mOpen[s]
  /\ nRead[s] < quota
  /\ nRead' = [nRead EXCEPT ![s] = @ + 1]
  /\ rdata' = [rdata EXCEPT ![s] = nRead[s] + 1]
  /\ rpc' = [rpc EXCEPT ![s] = "lock"]
  /\ UNCHANGED <<uiVars, tried, env, shellVars, srvVars, admVars>>
  /\ UNCHANGED <<sessions, nextSess, clients, running, rsnap, ptyVars, handVars,
                 sockVars, cliVars, histVars>>

\* lines 75-76: select times out after 0.1 s, `ready` is empty
RTimeout(s) ==
  /\ rpc[s] = "select" /\ mOpen[s]
  /\ rpc' = [rpc EXCEPT ![s] = "check"]
  /\ UNCHANGED <<uiVars, tried, env, shellVars, srvVars, admVars>>
  /\ UNCHANGED <<sessions, nextSess, clients, running, rdata, rsnap, nRead,
                 ptyVars, handVars, sockVars, cliVars, histVars>>

\* lines 75 and 86-87: select on a descriptor that close() has closed raises
\* OSError(EBADF), `except OSError: break`
RBadFd(s) ==
  /\ rpc[s] = "select" /\ ~mOpen[s]
  /\ rpc' = [rpc EXCEPT ![s] = "done"]
  /\ UNCHANGED <<uiVars, tried, env, shellVars, srvVars, admVars>>
  /\ UNCHANGED <<sessions, nextSess, clients, running, rdata, rsnap, nRead,
                 ptyVars, handVars, sockVars, cliVars, histVars>>

\* lines 79-80: `with self.lock`, `self.clients[:]`
RLock(s) ==
  /\ rpc[s] = "lock"
  /\ rsnap' = [rsnap EXCEPT ![s] = clients[s]]
  /\ rpc' = [rpc EXCEPT ![s] = IF clients[s] = <<>> THEN "check" ELSE "send"]
  /\ UNCHANGED <<uiVars, tried, env, shellVars, srvVars, admVars>>
  /\ UNCHANGED <<sessions, nextSess, clients, running, rdata, nRead, ptyVars,
                 handVars, sockVars, cliVars, histVars>>

\* lines 81-87: one turn of the loop over the snapshot
RSend(s) ==
  /\ rpc[s] = "send"
  /\ LET c == Head(rsnap[s])
         out == SendOutcome(c, 1)
     IN
     /\ out # "block"
     /\ sent' = [sent EXCEPT ![c] =
          IF out = "ok" THEN Append(@, PtyChunk(s, rdata[s])) ELSE @]
     /\ clients' = [clients EXCEPT ![s] =
          IF out = "pipe" THEN RemoveFirst(@, c) ELSE @]
     /\ rpos' = IF out = "ok" THEN RposAfter(c, <<PtyChunk(s, rdata[s])>>) ELSE rpos
     /\ sink' = IF out = "ok" THEN SinkAfter(c, <<PtyChunk(s, rdata[s])>>) ELSE sink
     /\ dOpen' = [dOpen EXCEPT ![c] = IF out = "pipe" THEN FALSE ELSE @]
     /\ rsnap' = [rsnap EXCEPT ![s] = IF out = "badf" THEN <<>> ELSE Tail(@)]
     /\ rpc' = [rpc EXCEPT ![s] =
          IF out = "badf" THEN "done"      \* `except OSError: break`
          ELSE IF Tail(rsnap[s]) = <<>> THEN "check" ELSE "send"]
  /\ UNCHANGED <<uiVars, tried, env, shellVars, srvVars, admVars>>
  /\ UNCHANGED <<sessions, nextSess, running, rdata, nRead, ptyVars, handVars,
                 pOpen, toD, quota, kind, script, cst, histVars>>

\* ---------------------------------------------------------- shell, closers
\* the shell ends on its own; the daemon has not yet waited for it
ShellExit(s) ==
  /\ env.exits /\ shell[s] = "alive"
  /\ shell' = [shell EXCEPT ![s] = "zombie"]
  /\ UNCHANGED <<uiVars, tried, env, mOpen, sOpen, mCloses, sCloses, closedRet, srvVars, admVars>>
  /\ UNCHANGED <<sessions, nextSess, sessVars, ptyVars, handVars, sockVars, cliVars,
                 histVars>>

\* the ids in the registry, in the order the loop of stop() visits them
RegisteredIds ==
  LET has(id) == sessions[id] # NoSession
  IN SelectSeq(<<"default", "work">>, has)

\* PTYSession.close, lines 120-131, called by k on session ccur[k]: the flag,
\* the subscribers' sockets closed and the list cleared under the lock, SIGTERM
CloseA(k) ==
  /\ cpc[k] = "closeA"
  /\ ~LockHeld(ccur[k])
  /\ LET s == ccur[k] IN
     /\ running' = [running EXCEPT ![s] = FALSE]
     /\ dOpen' = [c \in Socks |-> dOpen[c] /\ ~InSeq(clients[s], c)]
     /\ clients' = [clients EXCEPT ![s] = <<>>]
     /\ shell' = [shell EXCEPT ![s] = IF @ = "alive" /\ env.term THEN "zombie" ELSE @]
  /\ cpc' = [cpc EXCEPT ![k] = "closeB"]
  /\ UNCHANGED <<uiVars, tried, env, mOpen, sOpen, mCloses, sCloses, closedRet, srvVars, ccur, sit, ssize>>
  /\ UNCHANGED <<sessions, nextSess, rpc, rdata, rsnap, nRead, ptyVars, handVars,
                 pOpen, toD, sent, rpos, cliVars, histVars>>

\* PTYSession.close, lines 132-141: os.waitpid(self.shell_pid, 0) returns once
\* the child has ended (or raises, passed, when another caller has reaped it),
\* then os.close(master_fd) and, unless that raised, os.close(slave_fd)
CloseB(k) ==
  /\ cpc[k] = "closeB"
  /\ shell[ccur[k]] \in {"zombie", "reaped"}
  /\ LET s == ccur[k] IN
     /\ shell' = [shell EXCEPT ![s] = "reaped"]
     /\ mCloses' = [mCloses EXCEPT ![s] = @ + 1]
     /\ mOpen' = [mOpen EXCEPT ![s] = FALSE]
     /\ sCloses' = [sCloses EXCEPT ![s] = IF mOpen[s] THEN @ + 1 ELSE @]
     /\ sOpen' = [sOpen EXCEPT ![s] = IF mOpen[s] THEN FALSE ELSE @]
     /\ closedRet' = [closedRet EXCEPT ![s] = TRUE]
  /\ cpc' = [cpc EXCEPT ![k] = IF k = "stop" THEN "iter" ELSE "del"]
  /\ UNCHANGED <<uiVars, tried, env, srvVars, ccur, sit, ssize>>
  /\ UNCHANGED <<sessions, nextSess, sessVars, ptyVars, handVars, sockVars, cliVars,
                 histVars>>

\* close_session("default"), line 243: `if session_id in self.sessions`, and
\* the receiver of the close() call of line 244
CsCheck ==
  /\ env.close /\ cpc["cs"] = "idle"
  /\ cpc' = [cpc EXCEPT !["cs"] = IF sessions["default"] = NoSession THEN "done" ELSE "closeA"]
  /\ ccur' = [ccur EXCEPT !["cs"] = sessions["default"]]
  /\ UNCHANGED <<uiVars, tried, env, shellVars, srvVars, sit, ssize>>
  /\ UNCHANGED <<sessions, nextSess, sessVars, ptyVars, handVars, sockVars, cliVars,
                 histVars>>

\* close_session, line 245: `del self.sessions[session_id]`, KeyError when the
\* id is gone
CsDel ==
  /\ cpc["cs"] = "del"
  /\ sessions' = [sessions EXCEPT !["default"] = NoSession]
  /\ cpc' = [cpc EXCEPT !["cs"] = IF sessions["default"] = NoSession THEN "raised" ELSE "done"]
  /\ UNCHANGED <<uiVars, tried, env, shellVars, srvVars, ccur, sit, ssize>>
  /\ UNCHANGED <<nextSess, sessVars, ptyVars, handVars, sockVars, cliVars, histVars>>

\* stop(), lines 249 and 252: the flag, and the iterator over self.sessions.values()
StopFlag ==
  /\ env.stop /\ cpc["stop"] = "idle"
  /\ srvRunning' = FALSE
  /\ sit' = RegisteredIds
  /\ ssize' = Len(RegisteredIds)
  /\ cpc' = [cpc EXCEPT !["stop"] = "iter"]
  /\ UNCHANGED <<uiVars, tried, env, shellVars, listening, sockFile, acc, ccur>>
  /\ UNCHANGED <<sessions, nextSess, sessVars, ptyVars, handVars, sockVars, cliVars,
                 histVars>>

\* stop(), line 252: the next turn of the loop.  A dict that changed size since
\* the loop began raises RuntimeError, which ends stop().
StopIter ==
  /\ cpc["stop"] = "iter"
  /\ LET left == SelectSeq(sit, LAMBDA id : sessions[id] # NoSession) IN
     IF Len(RegisteredIds) # ssize
       THEN /\ cpc' = [cpc EXCEPT !["stop"] = "raised"]
            /\ UNCHANGED <<ccur, sit>>
     ELSE IF left = <<>>
       THEN /\ cpc' = [cpc EXCEPT !["stop"] = "clear"]
            /\ UNCHANGED <<ccur, sit>>
     ELSE /\ cpc' = [cpc EXCEPT !["stop"] = "closeA"]
          /\ ccur' = [ccur EXCEPT !["stop"] = sessions[Head(left)]]
          /\ sit' = Tail(left)
  /\ UNCHANGED <<uiVars, tried, env, shellVars, srvVars, ssize>>
  /\ UNCHANGED <<sessions, nextSess, sessVars, ptyVars, handVars, sockVars, cliVars,
                 histVars>>

\* stop(), line 254: self.sessions.clear()
StopClear ==
  /\ cpc["stop"] = "clear"
  /\ sessions' = [id \in SessionIds |-> NoSession]
  /\ cpc' = [cpc EXCEPT !["stop"] = "server"]
  /\ UNCHANGED <<uiVars, tried, env, shellVars, srvVars, ccur, sit, ssize>>
  /\ UNCHANGED <<nextSess, sessVars, ptyVars, handVars, sockVars, cliVars, histVars>>

\* stop(), lines 257-264: self.server_socket.close(), os.unlink(self.socket_path)
StopServer ==
  /\ cpc["stop"] = "server"
  /\ listening' = FALSE
  /\ sockFile' = FALSE
  /\ cpc' = [cpc EXCEPT !["stop"] = "done"]
  /\ UNCHANGED <<uiVars, tried, env, shellVars, srvRunning, acc, ccur, sit, ssize>>
  /\ UNCHANGED <<sessions, nextSess, sessVars, ptyVars, handVars, sockVars, cliVars,
                 histVars>>

\* ------------------------------------------------------------------- spec
Next ==
  \/ \E c \in Socks : ClientOpen(c)
  \/ \E c \in Socks : ClientSend(c)
  \/ \E c \in Socks : LibHandshake(c)
  \/ \E c \in Socks : LibEof(c)
  \/ \E c \in Socks : ClientClose(c)
  \/ \E c \in Socks : HRecv(c)
  \/ \E c \in Socks : HCheck(c)
  \/ \E c \in Socks : HCreate(c)
  \/ \E c \in Socks : HStore(c)
  \/ \E c \in Socks : HLookup(c)
  \/ \E c \in Socks : HAdd(c)
  \/ \E c \in Socks : HAck(c)
  \/ \E c \in Socks : HFinally(c)
  \/ \E s \in Sess : RCheck(s)
  \/ \E s \in Sess : RSelect(s)
  \/ \E s \in Sess : RTimeout(s)
  \/ \E s \in Sess : RBadFd(s)
  \/ \E s \in Sess : RLock(s)
  \/ \E s \in Sess : RSend(s)
  \/ \E s \in Sess : ShellExit(s)
  \/ \E k \in Closers : CloseA(k)
  \/ \E k \in Closers : CloseB(k)
  \/ CsCheck
  \/ CsDel
  \/ StopFlag
  \/ StopIter
  \/ StopClear
  \/ StopServer

Spec == Init /\ [][Next]_vars

\* ------------------------------------ TerminalBuffer (ui/widgets/terminal.py)
\* A str is a sequence of characters; a character is a one-character string,
\* the control characters being written by their names.
MaxRows == 2        \* rows given to TerminalBuffer() and to resize()
MaxCols == 2        \* cols given to TerminalBuffer() and to resize()
MaxOps == 3         \* calls made on a TerminalBuffer during a run

ESC == "ESC"        \* '\x1b'
LF == "LF"          \* '\n'
CR == "CR"          \* '\r'
BS == "BS"          \* '\b'
TAB == "TAB"        \* '\t'
BEL == "BEL"        \* '\x07', one of the characters with ord(char) < 32
Controls == {ESC, LF, CR, BS, TAB, BEL}
Digits == <<"0", "1", "2", "3", "4", "5", "6", "7", "8", "9">>
\* [0-9;] and [a-zA-Z] of escape_regex
ParamChars == {Digits[i] : i \in 1..10} \cup {";"}
Letters ==
  {"a", "b", "c", "d", "e", "f", "g", "h", "i", "j", "k", "l", "m", "n", "o", "p", "q",
   "r", "s", "t", "u", "v", "w", "x", "y", "z", "A", "B", "C", "D", "E", "F", "G", "H",
   "I", "J", "K", "L", "M", "N", "O", "P", "Q", "R", "S", "T", "U", "V", "W", "X", "Y",
   "Z"}

White == <<255, 255, 255>>
ansi_colors ==
  (30 :> <<0, 0, 0>>) @@ (31 :> <<255, 0, 0>>) @@ (32 :> <<0, 255, 0>>) @@
  (33 :> <<255, 255, 0>>) @@ (34 :> <<0, 0, 255>>) @@ (35 :> <<255, 0, 255>>) @@
  (36 :> <<0, 255, 255>>) @@ (37 :> <<255, 255, 255>>) @@ (90 :> <<128, 128, 128>>) @@
  (91 :> <<255, 128, 128>>) @@ (92 :> <<128, 255, 128>>) @@ (93 :> <<255, 255, 128>>) @@
  (94 :> <<128, 128, 255>>) @@ (95 :> <<255, 128, 255>>) @@ (96 :> <<128, 255, 255>>) @@
  (97 :> <<255, 255, 255>>)
ScrollbackMax == 1000  \* deque(maxlen=1000)
TabStop == 8

Min(a, b) == IF a < b THEN a ELSE b
Max(a, b) == IF a > b THEN a ELSE b
BlankLine(cols) == [j \in 1..cols |-> " "]
WhiteLine(cols) == [j \in 1..cols |-> White]

\* TerminalBuffer.__init__; rows and columns are counted from 0 as in the
\* code, so cell (i, j) is buffer[i + 1][j + 1].  exc is the exception the last
\* call on the buffer ended with; saved is every line _scroll_up ever saved.
NewBuffer(rows, cols) ==
  [rows |-> rows, cols |-> cols,
   buffer |-> [i \in 1..rows |-> BlankLine(cols)],
   colors |-> [i \in 1..rows |-> WhiteLine(cols)],
   cursor_row |-> 0, cursor_col |-> 0,
   scroll_top |-> 0, scroll_bottom |-> rows - 1,
   scrollback |-> <<>>, scrollback_offset |-> 0,
   current_color |-> White,
   exc |-> "none", saved |-> <<>>]

Raise(b, e) == [b EXCEPT !.exc = e]

\* resize without lines 70-71: the cursor is left where it was
ResizeKeepsCursor(b, rows, cols) ==
  IF rows = b.rows /\ cols = b.cols THEN [b EXCEPT !.exc = "none"]
  ELSE [b EXCEPT
          !.exc = "none",
          !.rows = rows,
          !.cols = cols,
          !.buffer = [i \in 1..rows |-> [j \in 1..cols |->
                        IF i <= Min(Len(b.buffer), rows) /\ j <= Min(Len(b.buffer[i]), cols)
                        THEN b.buffer[i][j] ELSE " "]],
          !.colors = [i \in 1..rows |-> [j \in 1..cols |->
                        IF i <= Min(Len(b.buffer), rows) /\ j <= Min(Len(b.buffer[i]), cols)
                        THEN b.colors[i][j] ELSE White]],
          !.scroll_bottom = rows - 1]

\* resize with line 68 left out: the kept cells lose their colors
ResizeDropsColors(b, rows, cols) ==
  IF rows = b.rows /\ cols = b.cols THEN [b EXCEPT !.exc = "none"]
  ELSE [b EXCEPT
          !.exc = "none",
          !.rows = rows,
          !.cols = cols,
          !.buffer = [i \in 1..rows |-> [j \in 1..cols |->
                        IF i <= Min(Len(b.buffer), rows) /\ j <= Min(Len(b.buffer[i]), cols)
                        THEN b.buffer[i][j] ELSE " "]],
          !.colors = [i \in 1..rows |-> WhiteLine(cols)],
          !.cursor_row = Min(b.cursor_row, rows - 1),
          !.cursor_col = Min(b.cursor_col, cols - 1),
          !.scroll_bottom = rows - 1]

\* TerminalBuffer.resize
Resize(b, rows, cols) ==
  IF rows = b.rows /\ cols = b.cols THEN [b EXCEPT !.exc = "none"]
  ELSE [b EXCEPT
          !.exc = "none",
          !.rows = rows,
          !.cols = cols,
          !.buffer = [i \in 1..rows |-> [j \in 1..cols |->
                        IF i <= Min(Len(b.buffer), rows) /\ j <= Min(Len(b.buffer[i]), cols)
                        THEN b.buffer[i][j] ELSE " "]],
          !.colors = [i \in 1..rows |-> [j \in 1..cols |->
                        IF i <= Min(Len(b.buffer), rows) /\ j <= Min(Len(b.buffer[i]), cols)
                        THEN b.colors[i][j] ELSE White]],
          !.cursor_row = Min(b.cursor_row, rows - 1),
          !.cursor_col = Min(b.cursor_col, cols - 1),
          !.scroll_bottom = rows - 1]

\* deque.append on a deque with maxlen: a full deque drops its first item
DequeAppend(q, x) ==
  IF Len(q) >= ScrollbackMax THEN Append(Tail(q), x) ELSE Append(q, x)

\* TerminalBuffer._scroll_up
ScrollUp(b) ==
  LET line == <<b.buffer[b.scroll_top + 1], b.colors[b.scroll_top + 1]>>
      shift(g, blank) ==
        [i \in 1..Len(g) |->
           IF i - 1 >= b.scroll_top /\ i - 1 < b.scroll_bottom THEN g[i + 1]
           ELSE IF i - 1 = b.scroll_bottom THEN blank
           ELSE g[i]]
  IN [b EXCEPT !.scrollback = DequeAppend(b.scrollback, line),
               !.saved = Append(b.saved, line),
               !.buffer = shift(b.buffer, BlankLine(b.cols)),
               !.colors = shift(b.colors, WhiteLine(b.cols))]

\* _newline that tests cursor_row > scroll_bottom: the bottom row moves down
NewlinePastBottom(b) ==
  IF b.cursor_row > b.scroll_bottom
  THEN ScrollUp([b EXCEPT !.cursor_col = 0])
  ELSE [b EXCEPT !.cursor_col = 0, !.cursor_row = b.cursor_row + 1]

\* TerminalBuffer._newline
Newline(b) ==
  IF b.cursor_row >= b.scroll_bottom
  THEN ScrollUp([b EXCEPT !.cursor_col = 0])
  ELSE [b EXCEPT !.cursor_col = 0, !.cursor_row = b.cursor_row + 1]

\* _write_text whose tab performs the newline only beyond cols
WriteCharTabBeyond(b, char) ==
  IF char = LF THEN Newline(b)
  ELSE IF char = CR THEN [b EXCEPT !.cursor_col = 0]
  ELSE IF char = BS
    THEN IF b.cursor_col > 0 THEN [b EXCEPT !.cursor_col = b.cursor_col - 1] ELSE b
  ELSE IF char = TAB
    THEN LET t == [b EXCEPT !.cursor_col = ((b.cursor_col \div TabStop) + 1) * TabStop]
         IN IF t.cursor_col > t.cols THEN Newline(t) ELSE t
  ELSE IF char \notin Controls
    THEN LET w == IF b.cursor_col >= b.cols THEN Newline(b) ELSE b
         IN [w EXCEPT !.buffer[w.cursor_row + 1][w.cursor_col + 1] = char,
                      !.colors[w.cursor_row + 1][w.cursor_col + 1] = w.current_color,
                      !.cursor_col = w.cursor_col + 1]
  ELSE b

\* one round of the loop of TerminalBuffer._write_text
WriteChar(b, char) ==
  IF char = LF THEN Newline(b)
  ELSE IF char = CR THEN [b EXCEPT !.cursor_col = 0]
  ELSE IF char = BS
    THEN IF b.cursor_col > 0 THEN [b EXCEPT !.cursor_col = b.cursor_col - 1] ELSE b
  ELSE IF char = TAB
    THEN LET t == [b EXCEPT !.cursor_col = ((b.cursor_col \div TabStop) + 1) * TabStop]
         IN IF t.cursor_col >= t.cols THEN Newline(t) ELSE t
  ELSE IF char \notin Controls
    THEN LET w == IF b.cursor_col >= b.cols THEN Newline(b) ELSE b
         IN [w EXCEPT !.buffer[w.cursor_row + 1][w.cursor_col + 1] = char,
                      !.colors[w.cursor_row + 1][w.cursor_col + 1] = w.current_color,
                      !.cursor_col = w.cursor_col + 1]
  ELSE b

\* TerminalBuffer._write_text
RECURSIVE WriteText(_, _)
WriteText(b, text) ==
  IF text = <<>> THEN b ELSE WriteText(WriteChar(b, Head(text)), Tail(text))

\* int(params) of a string of [0-9;]*: -1 stands for ValueError
RECURSIVE DigitsValue(_)
DigitsValue(str) ==
  IF str = <<>> THEN 0
  ELSE 10 * DigitsValue(SubSeq(str, 1, Len(str) - 1))
       + (CHOOSE d \in 0..9 : Digits[d + 1] = str[Len(str)])
IntOf(str) ==
  IF str = <<>> \/ \E i \in 1..Len(str) : str[i] = ";" THEN -1 ELSE DigitsValue(str)

\* params.split(';')
RECURSIVE SplitParams(_)
SplitParams(str) ==
  IF \A i \in 1..Len(str) : str[i] # ";" THEN <<str>>
  ELSE LET k == CHOOSE i \in 1..Len(str) :
                  str[i] = ";" /\ \A h \in 1..(i - 1) : str[h] # ";"
       IN <<SubSeq(str, 1, k - 1)>> \o SplitParams(SubSeq(str, k + 1, Len(str)))

\* TerminalBuffer._process_color_sequence
RECURSIVE ApplyCodes(_, _)
ApplyCodes(b, parts) ==
  IF parts = <<>> THEN b
  ELSE LET code == IntOf(Head(parts))
           c == IF Head(parts) = <<>> THEN b
                ELSE IF code = 0 THEN [b EXCEPT !.current_color = White]
                ELSE IF code \in DOMAIN ansi_colors
                  THEN [b EXCEPT !.current_color = ansi_colors[code]]
                ELSE b
       IN ApplyCodes(c, Tail(parts))
ProcessColorSequence(b, params) ==
  ApplyCodes(b, SplitParams(IF params = <<>> THEN <<"0">> ELSE params))

\* TerminalBuffer._process_cursor_position
ProcessCursorPosition(b, params) ==
  IF params = <<>> THEN [b EXCEPT !.cursor_row = 0, !.cursor_col = 0]
  ELSE LET parts == SplitParams(params)
       IN IF Len(parts) >= 2
          THEN IF IntOf(parts[1]) < 0 THEN Raise(b, "ValueError")
               ELSE LET r == [b EXCEPT !.cursor_row =
                                Max(0, Min(b.rows - 1, IntOf(parts[1]) - 1))]
                    IN IF IntOf(parts[2]) < 0 THEN Raise(r, "ValueError")
                       ELSE [r EXCEPT !.cursor_col =
                               Max(0, Min(b.cols - 1, IntOf(parts[2]) - 1))]
          ELSE b

\* the assignments buffer[i][j] = ' ', colors[i][j] = (255, 255, 255) made for
\* the cells of `cells` that the grid has
Blanked(b, cells) ==
  [b EXCEPT
     !.buffer = [i \in 1..Len(b.buffer) |-> [j \in 1..Len(b.buffer[i]) |->
                   IF <<i - 1, j - 1>> \in cells THEN " " ELSE b.buffer[i][j]]],
     !.colors = [i \in 1..Len(b.colors) |-> [j \in 1..Len(b.colors[i]) |->
                   IF <<i - 1, j - 1>> \in cells THEN White ELSE b.colors[i][j]]]]

\* TerminalBuffer._clear_screen; with param 1 the loop over j runs to
\* cursor_col inclusive and raises IndexError at j = cols, the cells before it
\* being cleared by then
ClearScreen(b, params) ==
  LET param == IF params = <<>> THEN 0 ELSE IntOf(params)
  IN IF param < 0 THEN Raise(b, "ValueError")
     ELSE IF param = 0
       THEN Blanked(b, {<<i, j>> \in (b.cursor_row..(b.rows - 1)) \X (0..(b.cols - 1)) :
                          j >= (IF i = b.cursor_row THEN b.cursor_col ELSE 0)})
     ELSE IF param = 1
       THEN LET c == Blanked(b, {<<i, j>> \in (0..b.cursor_row) \X (0..(b.cols - 1)) :
                                   j <= (IF i = b.cursor_row THEN b.cursor_col
                                         ELSE b.cols - 1)})
            IN IF b.cursor_col >= b.cols THEN Raise(c, "IndexError") ELSE c
     ELSE IF param = 2
       THEN Blanked(b, (0..(b.rows - 1)) \X (0..(b.cols - 1)))
     ELSE b

\* TerminalBuffer._clear_line
ClearLine(b, params) ==
  LET param == IF params = <<>> THEN 0 ELSE IntOf(params)
  IN IF param < 0 THEN Raise(b, "ValueError")
     ELSE IF param = 0
       THEN Blanked(b, {b.cursor_row} \X (b.cursor_col..(b.cols - 1)))
     ELSE IF param = 1
       THEN LET c == Blanked(b, {b.cursor_row} \X (0..Min(b.cursor_col, b.cols - 1)))
            IN IF b.cursor_col >= b.cols THEN Raise(c, "IndexError") ELSE c
     ELSE IF param = 2
       THEN Blanked(b, {b.cursor_row} \X (0..(b.cols - 1)))
     ELSE b

\* the cursor movements A, B, C, D of _process_escape_sequence
MoveCursor(b, command, params) ==
  LET count == IF params = <<>> THEN 1 ELSE IntOf(params)
  IN IF count < 0 THEN Raise(b, "ValueError")
     ELSE IF command = "A" THEN [b EXCEPT !.cursor_row = Max(0, b.cursor_row - count)]
     ELSE IF command = "B"
       THEN [b EXCEPT !.cursor_row = Min(b.rows - 1, b.cursor_row + count)]
     ELSE IF command = "C"
       THEN [b EXCEPT !.cursor_col = Min(b.cols - 1, b.cursor_col + count)]
     ELSE [b EXCEPT !.cursor_col = Max(0, b.cursor_col - count)]

\* TerminalBuffer._process_escape_sequence, seq being a match of escape_regex
ProcessEscapeSequence(b, seq) ==
  LET params == SubSeq(seq, 3, Len(seq) - 1)
      command == seq[Len(seq)]
  IN IF command = "m" THEN ProcessColorSequence(b, params)
     ELSE IF command \in {"H", "f"} THEN ProcessCursorPosition(b, params)
     ELSE IF command \in {"A", "B", "C", "D"} THEN MoveCursor(b, command, params)
     ELSE IF command = "J" THEN ClearScreen(b, params)
     ELSE IF command = "K" THEN ClearLine(b, params)
     ELSE b

\* escape_regex = \x1b\[[0-9;]*[a-zA-Z] tried at index i of data: the index of
\* the match's last character, 0 when there is no match at i
RECURSIVE ParamsEnd(_, _)
ParamsEnd(data, k) ==
  IF k <= Len(data) /\ data[k] \in ParamChars THEN ParamsEnd(data, k + 1) ELSE k
MatchEnd(data, i) ==
  IF i + 1 <= Len(data) /\ data[i] = ESC /\ data[i + 1] = "["
  THEN LET k == ParamsEnd(data, i + 2)
       IN IF k <= Len(data) /\ data[k] \in Letters THEN k ELSE 0
  ELSE 0

\* escape_regex.search(data, pos): where the leftmost match at or after pos
\* starts, 0 when there is none
RECURSIVE Search(_, _)
Search(data, pos) ==
  IF pos > Len(data) THEN 0
  ELSE IF MatchEnd(data, pos) > 0 THEN pos
  ELSE Search(data, pos + 1)

\* the loop of TerminalBuffer.write from position pos; an exception raised by
\* a step ends the call
RECURSIVE WriteFrom(_, _, _)
WriteFrom(b, data, pos) ==
  IF pos > Len(data) \/ b.exc # "none" THEN b
  ELSE LET m == Search(data, pos)
       IN IF m = 0 THEN WriteText(b, SubSeq(data, pos, Len(data)))
          ELSE LET end == MatchEnd(data, m)
                   t == IF m > pos THEN WriteText(b, SubSeq(data, pos, m - 1)) ELSE b
               IN WriteFrom(ProcessEscapeSequence(t, SubSeq(data, m, end)), data, end + 1)

\* write without the search for escape sequences: all of data is text
WriteAsText(b, data) == WriteText([b EXCEPT !.exc = "none"], data)

\* TerminalBuffer.write
Write(b, data) == WriteFrom([b EXCEPT !.exc = "none"], data, 1)

\* TerminalBuffer.get_display_lines: a sequence of <<line_text, line_colors>>
GetDisplayLines(b) ==
  IF b.scrollback_offset > 0
  THEN LET n == Len(b.scrollback)
           start_idx == Max(0, n - b.scrollback_offset)
           lines == SubSeq(b.scrollback, start_idx + 1, n)
           remaining == b.rows - Len(lines)
       IN lines \o [i \in 1..Min(Max(remaining, 0), Len(b.buffer)) |->
                      <<b.buffer[i], b.colors[i]>>]
  ELSE [i \in 1..b.rows |-> <<b.buffer[i], b.colors[i]>>]

\* what the terminal is fed in the runs studied, one chunk per call of write
Chunks ==
  { <<"a">>, <<"b">>, <<LF>>, <<CR>>, <<BS>>, <<TAB>>, <<BEL>>,
    <<ESC, "[", "H">>, <<ESC, "[", "2", ";", "2", "H">>,
    <<ESC, "[", "A">>, <<ESC, "[", "C">>,
    <<ESC, "[", "J">>, <<ESC, "[", "1", "J">>, <<ESC, "[", "1", "K">>,
    <<ESC, "[", "3", "1", "m", "a">>, <<ESC, "[", "1", ";", "1", "B">> }

\* the widths studied: the narrow ones, one that ends on a tab stop and one
\* wider than a tab stop
Widths == (1..MaxCols) \cup {TabStop, TabStop + 1}

InitNoDaemon ==
  /\ InitDaemon
  /\ env = QuietEnv
  /\ quota = 0
  /\ kind = [c \in Socks |-> "raw"]
  /\ script = [c \in Socks |-> <<>>]

\* TerminalBuffer(rows, cols)
TermInit ==
  /\ InitNoDaemon
  /\ InitNoClient
  /\ \E r \in 1..MaxRows, c \in Widths :
       /\ tb = NewBuffer(r, c)
       /\ tbLast = [op |-> "init", rows |-> r, cols |-> c]
  /\ tbPrev = tb
  /\ tbOps = 0

\* a call of write(data)
TbWrite(data) ==
  /\ tbOps < MaxOps
  /\ tb' = Write(tb, data)
  /\ tbPrev' = tb
  /\ tbLast' = [op |-> "write", data |-> data]
  /\ tbOps' = tbOps + 1
  /\ UNCHANGED <<daemonVars, pcVars>>

\* a call of resize(rows, cols)
TbResize(rows, cols) ==
  /\ tbOps < MaxOps
  /\ tb' = Resize(tb, rows, cols)
  /\ tbPrev' = tb
  /\ tbLast' = [op |-> "resize", rows |-> rows, cols |-> cols]
  /\ tbOps' = tbOps + 1
  /\ UNCHANGED <<daemonVars, pcVars>>

\* the owner sets scrollback_offset, to a value the buffer allows
TbScrollTo(offset) ==
  /\ tbOps < MaxOps
  /\ offset # tb.scrollback_offset
  /\ tb' = [tb EXCEPT !.scrollback_offset = offset, !.exc = "none"]
  /\ tbPrev' = tb
  /\ tbLast' = [op |-> "scroll", offset |-> offset]
  /\ tbOps' = tbOps + 1
  /\ UNCHANGED <<daemonVars, pcVars>>

TermNext ==
  \/ \E data \in Chunks : TbWrite(data)
  \/ \E r \in 1..MaxRows, c \in Widths : TbResize(r, c)
  \/ \E o \in 0..Len(tb.scrollback) : TbScrollTo(o)

TermSpec == TermInit /\ [][TermNext]_vars

\* --------------------------------------------------- a long-running terminal
MaxLines == 1002    \* lines of output the long-running terminal is fed
BootLines == 900    \* lines it has been fed when the run studied begins

\* the n-th line of the output: one character and a line feed
OutputLine(n) == <<(IF n % 2 = 0 THEN "a" ELSE "b"), LF>>

\* the buffer after write() was called with each of the lines lo..hi in turn;
\* the first half is worked out before the second is begun
RECURSIVE Fed(_, _, _)
Fed(b, lo, hi) ==
  IF lo > hi THEN b
  ELSE IF lo = hi THEN Write(b, OutputLine(lo))
  ELSE LET mid == (lo + hi) \div 2
           half == Fed(b, lo, mid)
       IN IF half.exc = "none" THEN Fed(half, mid + 1, hi) ELSE Fed(half, mid + 1, hi)

ScrollInit ==
  /\ InitNoDaemon
  /\ InitNoClient
  /\ tb = Fed(NewBuffer(1, 1), 1, BootLines)
  /\ tbLast = [op |-> "write", data |-> OutputLine(BootLines)]
  /\ tbPrev = NoObject
  /\ tbOps = BootLines

\* write() is called with the next line of the output
TbFeed ==
  /\ tbOps < MaxLines
  /\ tb' = Write(tb, OutputLine(tbOps + 1))
  /\ tbLast' = [op |-> "write", data |-> OutputLine(tbOps + 1)]
  /\ tbOps' = tbOps + 1
  /\ UNCHANGED <<tbPrev, daemonVars, pcVars>>

ScrollNext == TbFeed

ScrollSpec == ScrollInit /\ [][ScrollNext]_vars

\* ----------------------------------- PTYClient (ptymaster/session_manager.py)
\* One PTYClient object, the thread that calls its methods, the receive
\* threads it started and the daemon's end of its connections.
MaxCalls == 4       \* calls of PTYClient methods made during a run

\* PTYClient.__init__; socket and receive_thread are 0 for None, else the
\* number of the socket object in socks, of the thread in threads
NewClient ==
  [socket |-> 0, connected |-> FALSE, session_id |-> NoObject,
   receive_thread |-> 0, running |-> FALSE]

\* a socket object: closed by the client or not, and the daemon's end of it:
\* "refused" (connect failed), "up", "eof" (closed), "reset"; inq counts the
\* chunks that wait to be received
NewSocket(peer) == [closed |-> FALSE, peer |-> peer, inq |-> 0]

\* how a call of connect() ends: "refused" (ConnectionRefusedError or
\* FileNotFoundError, lines 50-51), "garbled" (the reply is not a connected
\* message, lines 45-48), "raised" (send or recv raises another OSError),
\* "ok" (lines 36-44)
ConnectEnds == {"refused", "garbled", "raised", "ok"}

\* threading.Thread.is_alive
IsAlive(t) == threads[t].pc \notin {"ended", "died"}

ClientInit ==
  /\ InitNoDaemon
  /\ InitNoTerminal
  /\ pty_client = NewClient
  /\ socks = <<>>
  /\ threads = <<>>
  /\ pcCall = "idle"
  /\ pcLast = [op |-> "init", err |-> "none", run |-> 0]
  /\ pcCalls = 0

\* PTYClient.connect("default"), from its first line to its return; the
\* callers make a PTYClient for each connection and call connect on it once
\* (create_ssh_session, TerminalWidget._connect_to_pty)
PcConnect(end) ==
  /\ pcCall = "idle"
  /\ socks = <<>>
  /\ pcCalls < MaxCalls
  /\ pcCalls' = pcCalls + 1
  /\ socks' = Append(socks, NewSocket(IF end = "refused" THEN "refused" ELSE "up"))
  /\ IF end = "ok"
     THEN /\ threads' = Append(threads, [pc |-> "loop", sock |-> 0])
          /\ pty_client' = [pty_client EXCEPT !.socket = Len(socks) + 1,
                                              !.connected = TRUE,
                                              !.session_id = "default",
                                              !.running = TRUE,
                                              !.receive_thread = Len(threads) + 1]
     ELSE /\ threads' = threads
          /\ pty_client' = [pty_client EXCEPT !.socket = Len(socks) + 1]
  /\ pcLast' = [op |-> "connect",
                err |-> IF end = "raised" THEN "OSError" ELSE "none", run |-> 0]
  /\ UNCHANGED <<pcCall, daemonVars, termVars>>

\* PTYClient.send_input, and resize_terminal, which differs in the message only
PcSend ==
  /\ pcCall = "idle"
  /\ pcCalls < MaxCalls
  /\ pcCalls' = pcCalls + 1
  /\ IF pty_client.connected /\ pty_client.socket # 0
     THEN IF socks[pty_client.socket].peer = "up"
          THEN UNCHANGED pty_client
          ELSE pty_client' = [pty_client EXCEPT !.connected = FALSE]
     ELSE UNCHANGED pty_client
  /\ pcLast' = [op |-> "send", err |-> "none", run |-> 0]
  /\ UNCHANGED <<socks, threads, pcCall, daemonVars, termVars>>

\* PTYClient.disconnect, lines 108-109
PcDiscFlags ==
  /\ pcCall = "idle"
  /\ pcCalls < MaxCalls
  /\ pcCalls' = pcCalls + 1
  /\ pty_client' = [pty_client EXCEPT !.running = FALSE, !.connected = FALSE]
  /\ pcCall' = "socket"
  /\ UNCHANGED <<socks, threads, pcLast, daemonVars, termVars>>

\* disconnect without the test of line 111: None.close() raises
CloseOfUnguarded(p) ==
  [closes |-> p.socket, err |-> IF p.socket # 0 THEN "none" ELSE "AttributeError"]

\* PTYClient.disconnect, lines 111-116: the socket it closes (0 for none) and
\* the exception that leaves the call; an OSError of close() is passed
CloseOf(p) ==
  [closes |-> IF p.socket # 0 THEN p.socket ELSE 0, err |-> "none"]

\* the consecutive calls of disconnect that have ended, this one included
RunOf(last) == IF last.op = "disconnect" THEN last.run + 1 ELSE 1

PcDiscSocket ==
  /\ pcCall = "socket"
  /\ LET c == CloseOf(pty_client)
     IN /\ socks' = [k \in 1..Len(socks) |->
                       IF k = c.closes THEN [socks[k] EXCEPT !.closed = TRUE]
                       ELSE socks[k]]
        /\ IF c.err = "none"
           THEN /\ pty_client' = [pty_client EXCEPT !.socket = 0]
                /\ pcCall' = "join"
                /\ UNCHANGED pcLast
           ELSE /\ UNCHANGED pty_client
                /\ pcCall' = "idle"
                /\ pcLast' = [op |-> "disconnect", err |-> c.err, run |-> RunOf(pcLast)]
  /\ UNCHANGED <<threads, pcCalls, daemonVars, termVars>>

\* PTYClient.disconnect, lines 118-119: join(timeout=1.0) returns when the
\* thread has ended or the second has passed
PcDiscJoin ==
  /\ pcCall = "join"
  /\ pcCall' = "idle"
  /\ pcLast' = [op |-> "disconnect", err |-> "none", run |-> RunOf(pcLast)]
  /\ UNCHANGED <<pty_client, socks, threads, pcCalls, daemonVars, termVars>>

\* _receive_loop, line 55 and, when the loop ends there, line 67
ThLoop(t) ==
  /\ threads[t].pc = "loop"
  /\ IF pty_client.running /\ pty_client.socket # 0
     THEN /\ threads' = [threads EXCEPT ![t].pc = "call"]
          /\ UNCHANGED pty_client
     ELSE /\ threads' = [threads EXCEPT ![t].pc = "ended"]
          /\ pty_client' = [pty_client EXCEPT !.connected = FALSE]
  /\ UNCHANGED <<socks, pcCall, pcLast, pcCalls, daemonVars, termVars>>

\* _receive_loop, line 57: self.socket is read again; None has no recv
\* (AttributeError), a closed socket raises OSError, neither is caught
ThCall(t) ==
  /\ threads[t].pc = "call"
  /\ threads' = [threads EXCEPT
       ![t] = IF pty_client.socket = 0 THEN [pc |-> "died", sock |-> 0]
              ELSE IF socks[pty_client.socket].closed THEN [pc |-> "died", sock |-> 0]
              ELSE [pc |-> "recv", sock |-> pty_client.socket]]
  /\ UNCHANGED <<pty_client, socks, pcCall, pcLast, pcCalls, daemonVars, termVars>>

\* _receive_loop, lines 57-65: recv returns a chunk (the callback runs), or
\* b'' or ConnectionResetError (the loop ends, line 67)
ThRecv(t) ==
  /\ threads[t].pc = "recv"
  /\ LET k == threads[t].sock
     IN IF socks[k].inq > 0
        THEN /\ socks' = [socks EXCEPT ![k].inq = socks[k].inq - 1]
             /\ threads' = [threads EXCEPT ![t].pc = "loop"]
             /\ UNCHANGED pty_client
        ELSE /\ socks[k].peer \in {"eof", "reset"}
             /\ threads' = [threads EXCEPT ![t].pc = "ended"]
             /\ pty_client' = [pty_client EXCEPT !.connected = FALSE]
             /\ UNCHANGED socks
  /\ UNCHANGED <<pcCall, pcLast, pcCalls, daemonVars, termVars>>

\* the socket is the client's current one or a receive thread waits on it;
\* what the daemon does to any other connection reaches nobody
InUse(k) ==
  \/ pty_client.socket = k
  \/ \E t \in 1..Len(threads) : threads[t].pc = "recv" /\ threads[t].sock = k

\* the daemon sends a chunk of output on the connection
PeerData(k) ==
  /\ socks[k].peer = "up"
  /\ ~socks[k].closed
  /\ InUse(k)
  /\ socks[k].inq = 0
  /\ socks' = [socks EXCEPT ![k].inq = 1]
  /\ UNCHANGED <<pty_client, threads, pcCall, pcLast, pcCalls, daemonVars, termVars>>

\* the daemon closes its end of the connection, or the connection is reset
PeerClose(k, how) ==
  /\ socks[k].peer = "up"
  /\ InUse(k)
  /\ socks' = [socks EXCEPT ![k].peer = how]
  /\ UNCHANGED <<pty_client, threads, pcCall, pcLast, pcCalls, daemonVars, termVars>>

ClientNext ==
  \/ \E end \in ConnectEnds : PcConnect(end)
  \/ PcSend
  \/ PcDiscFlags
  \/ PcDiscSocket
  \/ PcDiscJoin
  \/ \E t \in 1..Len(threads) : ThLoop(t)
  \/ \E t \in 1..Len(threads) : ThCall(t)
  \/ \E t \in 1..Len(threads) : ThRecv(t)
  \/ \E k \in 1..Len(socks) : PeerData(k)
  \/ \E k \in 1..Len(socks), how \in {"eof", "reset"} : PeerClose(k, how)

ClientSpec == ClientInit /\ [][ClientNext]_vars

\* ------------------------------------------------------------------ claims
IsAck(x) == x.k = "json" /\ x.type = "connected"
IsPty(x) == x.k = "pty"
Attached(c, s) == InSeq(clients[s], c)

\* the numbers of the chunks of session s sent on connection c, in order
PtyNums(c, s) ==
  LET own(x) == IsPty(x) /\ x.a = s
      q == SelectSeq(sent[c], own)
  IN [i \in 1..Len(q) |-> q[i].b]

\* C1: the first thing the daemon sends on a connection is the connected
\* acknowledgement; no chunk of PTY output precedes it.
C1_AckBeforeOutput ==
  \A c \in Socks : sent[c] # <<>> => IsAck(sent[c][1])

\* C2: while the reader of a session is between two broadcasts, any two sockets
\* attached to it have each been sent, of the chunks broadcast since the later
\* of the two was attached, every one exactly once and in read order.
C2_SameBytesToBoth ==
  \A s \in Sess : \A c1, c2 \in Socks :
    ( /\ c1 # c2 /\ Attached(c1, s) /\ Attached(c2, s)
      /\ rpc[s] \notin {"lock", "send"} )
    => LET from == IF attAt[c1] > attAt[c2] THEN attAt[c1] ELSE attAt[c2]
           since(n) == n > from
           want == [i \in 1..(nRead[s] - from) |-> from + i]
       IN /\ SelectSeq(PtyNums(c1, s), since) = want
          /\ SelectSeq(PtyNums(c2, s), since) = want

\* C3: a step of the broadcast loop in which the send to a subscriber fails
\* removes that subscriber from the session's list and leaves the reader
\* running.
C3_SendFailureIsLocal ==
  [][\A s \in Sess :
       ( /\ rpc[s] = "send" /\ rsnap'[s] # rsnap[s]
         /\ SendOutcome(Head(rsnap[s]), 1) \in {"pipe", "badf"} )
       => /\ ~InSeq(clients'[s], Head(rsnap[s]))
          /\ rpc'[s] # "done"]_vars

\* C4: the reader, inside its broadcast loop and holding the subscriber lock,
\* is never held up in a send to a subscriber whose peer never reads.
C4_ReaderNeverBlocks ==
  \A s \in Sess :
    (rpc[s] = "send" /\ kind[Head(rsnap[s])] = "mute")
    => SendOutcome(Head(rsnap[s]), 1) # "block"

\* C5: as long as neither stop() nor close_session() has been called, every
\* PTYSession that was constructed and stored in the registry is the session
\* the registry holds for some id: connects for one id never construct a
\* second session that replaces the first.
C5_OneSessionPerId ==
  \A s \in Sess :
    ( /\ s < nextSess /\ ~\E c \in Socks : hpc[c] = "store" /\ hnew[c] = s
      /\ rpc[s] # "none" /\ \A k \in Closers : cpc[k] = "idle" )
    => \E id \in SessionIds : sessions[id] = s

\* C6: once the handler has joined a session, and while the session's master
\* is open, a received chunk that is no
\* connect, resize or input frame is appended whole to what was written to
\* the session's master, and the handler goes on receiving.
C6_RawFallback ==
  [][\A c \in Socks :
       ( /\ hpc[c] = "recv" /\ dOpen[c] /\ toD[c] # <<>> /\ toD'[c] = <<>>
         /\ hsess[c] # NoSession /\ mOpen[hsess[c]]
         /\ ~(Loads(toD[c]) = "dict"
              /\ LoadsMsg(toD[c]).type \in {"connect", "resize", "input"}) )
       => /\ ptyIn'[hsess[c]] = WriteToPty(hsess[c], c, toD[c])[hsess[c]]
          /\ hpc'[c] = "recv"]_vars

\* what was written to the master of the joined session on behalf of c
WrittenFor(c) ==
  LET mine(x) == x[1] = c
      q == SelectSeq(ptyIn[hsess[c]], mine)
  IN [i \in 1..Len(q) |-> q[i][2]]

\* C7: when the handler has consumed everything a PTYClient sent, the bytes
\* written to the master for it are the payloads of its send_input calls,
\* concatenated in call order.
C7_InputInOrder ==
  \A c \in Socks :
    (kind[c] = "lib" /\ hsess[c] # NoSession /\ hpc[c] = "recv" /\ toD[c] = <<>>)
    => WrittenFor(c) = typed[c]

\* what follows the acknowledgement in q, less the newline that ends it
HasAck(q) == \E i \in 1..Len(q) : IsAck(q[i])
RECURSIVE AfterAck(_)
AfterAck(q) ==
  IF q = <<>> THEN <<>>
  ELSE IF IsAck(Head(q)) THEN StripL(Tail(q))
  ELSE AfterAck(Tail(q))

\* C8: PTYClient.connect does not fail on a reply that holds the
\* acknowledgement, and a connected PTYClient has delivered to its sink all
\* it received after the acknowledgement.
C8_HandshakeKeepsBytes ==
  \A c \in Socks :
    kind[c] = "lib" =>
      /\ cst[c] = "failed" => ~HasAck(SubSeq(sent[c], 1, rpos[c]))
      /\ cst[c] = "up" => sink[c] = AfterAck(SubSeq(sent[c], 1, rpos[c]))

\* C9: a connection whose first message was not a connect frame is not read
\* any further and is attached to no session.
C9_NonConnectFirstCloses ==
  \A c \in Socks :
    first[c] = "other" =>
      /\ hpc[c] \in {"finally", "done"}
      /\ \A s \in Sess : ~Attached(c, s)

\* C10: an id that is in the registry keeps its session object: no step
\* replaces or removes it, unless stop() or close_session() has been called.
C10_SessionPersists ==
  [][\A id \in SessionIds :
       (sessions[id] # NoSession /\ \A k \in Closers : cpc[k] = "idle")
       => sessions'[id] = sessions[id]]_vars

\* C11: once the handler of a connection has ended, the connection's socket
\* is in the subscriber list of no session.
C11_ExitDetachesEverywhere ==
  \A c \in Socks : hpc[c] = "done" => \A s \in Sess : ~Attached(c, s)

\* C12: a socket is in the subscriber list of a session at most once, however
\* often it was attached.
C12_AttachIdempotent ==
  \A s \in Sess : \A c \in Socks : Count(clients[s], c) <= 1

\* C13: a step that takes a socket out of a session's subscriber list leaves
\* the socket as it was: the session does not close it.
C13_DetachLeavesSocketOpen ==
  [][\A s \in Sess : \A c \in Socks :
       Count(clients'[s], c) < Count(clients[s], c) => dOpen'[c] = dOpen[c]]_vars

\* clamp(x, 1, 1000)
Clamp(x) == IF x < 1 THEN 1 ELSE IF x > 1000 THEN 1000 ELSE x

\* C19: a step in which a joined handler receives a resize frame sets the
\* window size of the session's slave, while that is open, to the clamped
\* rows and columns of the frame, and the handler goes on receiving.
C19_ResizeClamped ==
  [][\A c \in Socks :
       ( /\ hpc[c] = "recv" /\ dOpen[c] /\ toD[c] # <<>> /\ toD'[c] = <<>>
         /\ hsess[c] # NoSession /\ sOpen[hsess[c]]
         /\ Loads(toD[c]) = "dict" /\ LoadsMsg(toD[c]).type = "resize" )
       => /\ winsize'[hsess[c]] = <<Clamp(LoadsMsg(toD[c]).a), Clamp(LoadsMsg(toD[c]).b)>>
          /\ hpc'[c] = "recv"]_vars

\* C14: close() is never waiting, without a time limit, for a child that is
\* still running and will not end: a child that ignored the termination
\* signal has been force-killed before the wait.
C14_CloseReturns ==
  \A k \in Closers :
    cpc[k] = "closeB" => (shell[ccur[k]] # "alive" \/ env.exits)

\* C15: os.close is called at most once on a session's master and at most
\* once on its slave, and once a close() of the session has returned neither
\* is open.
C15_FdsClosedOnce ==
  \A s \in Sess :
    /\ mCloses[s] <= 1 /\ sCloses[s] <= 1
    /\ closedRet[s] => (~mOpen[s] /\ ~sOpen[s])

\* a PTYSession that was constructed and has a reader thread
Born(s) == rpc[s] # "none"

\* C16: stop() is closing sessions only after the listening socket has been
\* closed; and once stop() has returned the registry is empty, close() has
\* returned on every session ever constructed, and the endpoint file is gone.
C16_StopOrder ==
  /\ cpc["stop"] \in {"closeA", "closeB"} => ~listening
  /\ cpc["stop"] = "done" =>
       /\ \A id \in SessionIds : sessions[id] = NoSession
       /\ \A s \in Sess : Born(s) => closedRet[s]
       /\ ~sockFile

\* C17: once the session's child has ended and all its output has been read,
\* the reader does not poll again: the next step it takes ends its loop, and
\* the session stays in the registry.
C17_ReaderStopsAtEof ==
  [][\A s \in Sess :
       ( /\ shell[s] \in {"zombie", "reaped"} /\ nRead[s] = quota
         /\ rpc[s] = "select" /\ rpc'[s] # rpc[s] )
       => /\ rpc'[s] = "done"
          /\ \A id \in SessionIds : sessions[id] = s => sessions'[id] = s]_vars

\* C18: a handler whose construction of a PTYSession failed (openpty, fork or
\* exec) registers nothing under the id, ends, and its connection is closed.
C18_CreateFailureIsClean ==
  \A c \in Socks :
    (tried[c] # 0 /\ env.fate[tried[c]] # "ok") =>
      /\ \A id \in SessionIds : sessions[id] # tried[c]
      /\ hpc[c] \in {"finally", "done"}
      /\ hpc[c] = "done" => ~dOpen[c]

\* C20: once a close() of the session has returned, the reader reads no
\* further chunk from the master and sends nothing more to any socket.
C20_ReaderQuietAfterClose ==
  [][\A s \in Sess :
       closedRet[s] =>
         /\ nRead'[s] = nRead[s]
         /\ \A c \in Socks : PtyNums(c, s)' = PtyNums(c, s)]_vars


\* ------------------------------------------------------ claims on PTYClient
\* C21: disconnect() is idempotent: a call of it, the first or a later one, in
\* any client state (never connected, connected, already disconnected,
\* receiver already ended) raises no error and leaves the client not
\* connected, not running and without a socket, so a second call leaves the
\* state the first one left
C21_DisconnectIdempotent ==
  (pcLast.op = "disconnect" /\ pcCall = "idle") =>
    /\ pcLast.err = "none"
    /\ ~pty_client.connected
    /\ ~pty_client.running
    /\ pty_client.socket = 0

\* disconnect() has returned a second time in a row on a client that had been
\* connected and whose receive thread was still alive after the first call
C21_Witness ==
  /\ pcLast.op = "disconnect"
  /\ pcLast.run >= 2
  /\ pcCall = "idle"
  /\ pty_client.receive_thread # 0
  /\ \E t \in 1..Len(threads) : IsAlive(t)

\* ------------------------------------------------- claims on TerminalBuffer
\* the grid g has exactly rows lines of exactly cols cells
IsGrid(g, rows, cols) ==
  /\ Len(g) = rows
  /\ \A i \in 1..Len(g) : Len(g[i]) = cols

\* C22: after any sequence of write and resize calls on a buffer created with
\* rows >= 1 and cols >= 1, the character grid and the color grid are exactly
\* rows x cols, rows and cols being those of the last resize (a write changes
\* neither), 0 <= cursor_row < rows, 0 <= cursor_col <= cols and
\* 0 <= scroll_top <= scroll_bottom < rows
C22_GridAndCursorInBounds ==
  /\ IsGrid(tb.buffer, tb.rows, tb.cols)
  /\ IsGrid(tb.colors, tb.rows, tb.cols)
  /\ IF tbLast.op \in {"init", "resize"}
     THEN tb.rows = tbLast.rows /\ tb.cols = tbLast.cols
     ELSE tb.rows = tbPrev.rows /\ tb.cols = tbPrev.cols
  /\ 0 <= tb.cursor_row /\ tb.cursor_row < tb.rows
  /\ 0 <= tb.cursor_col /\ tb.cursor_col <= tb.cols
  /\ 0 <= tb.scroll_top /\ tb.scroll_top <= tb.scroll_bottom
  /\ tb.scroll_bottom < tb.rows

\* a resize to fewer rows and fewer columns of a buffer whose cursor was on
\* the last row, one past the row's end
C22_Witness ==
  /\ tbLast.op = "resize"
  /\ tbPrev.cursor_col = tbPrev.cols
  /\ tbPrev.cursor_row = tbPrev.rows - 1
  /\ tbLast.rows < tbPrev.rows
  /\ tbLast.cols < tbPrev.cols

\* the streams whose splits are compared: plain text, text with a line feed,
\* and text with an erase, a cursor position and a color sequence
SplitStreams ==
  { <<"a", "b">>, <<"a", LF, "b">>, <<ESC, "[", "2", "J">>,
    <<"a", ESC, "[", "H", "b">>, <<ESC, "[", "3", "1", "m", "a">> }

\* C23: for any stream s and any split s = s1 + s2, at any position, also
\* inside an escape sequence, write(s1) followed by write(s2) leaves the same
\* character grid as one write(s) from the same starting state
C23_SplitInvariant ==
  \A s \in SplitStreams : \A k \in 0..Len(s) :
    LET s1 == SubSeq(s, 1, k)
        s2 == SubSeq(s, k + 1, Len(s))
    IN Write(Write(tb, s1), s2).buffer = Write(tb, s).buffer

\* C24: after writes that caused n scroll-ups the scrollback holds exactly the
\* most recent min(n, SCROLLBACK_LIMIT) lines that left the top of the scroll
\* region, oldest first, with SCROLLBACK_LIMIT = 1024; its length never
\* exceeds the limit and only the oldest line is dropped on overflow
C24_ScrollbackKeepsLimit ==
  LET n == Len(tb.saved)
      kept == Min(n, 1024)
  IN /\ Len(tb.scrollback) <= 1024
     /\ tb.scrollback = SubSeq(tb.saved, n - kept + 1, n)

\* C25: for every buffer state and every scrollback_offset in
\* 0..len(scrollback), get_display_lines returns exactly rows lines; with a
\* positive offset the first min(offset, rows) of them are taken from the last
\* offset lines of the scrollback, oldest first, and the remaining ones are
\* the top lines of the current buffer
C25_DisplayHasRowsLines ==
  \A offset \in 0..Len(tb.scrollback) :
    LET lines == GetDisplayLines([tb EXCEPT !.scrollback_offset = offset])
        n == Len(tb.scrollback)
        k == Min(offset, tb.rows)
    IN /\ Len(lines) = tb.rows
       /\ \A i \in 1..Min(k, Len(lines)) : lines[i] = tb.scrollback[n - offset + i]
       /\ \A i \in (k + 1)..Min(tb.rows, Len(lines)) :
            lines[i] = <<tb.buffer[i - k], tb.colors[i - k]>>

\* C26: resize(r, c) keeps the character and the color of every cell (i, j)
\* with i < min(old_rows, r) and j < min(old_cols, c), sets every other cell
\* of the new grid to blank with the default color, clips the cursor into the
\* new bounds (it ends within them, is moved towards the origin only, and a
\* coordinate that addresses a cell of the new grid stays) and sets
\* scroll_bottom to r - 1
C26_ResizeKeepsCells ==
  tbLast.op = "resize" =>
    LET r == tbLast.rows
        c == tbLast.cols
    IN /\ IsGrid(tb.buffer, r, c) /\ IsGrid(tb.colors, r, c)
       /\ \A i \in 0..(r - 1), j \in 0..(c - 1) :
            IF i < Min(tbPrev.rows, r) /\ j < Min(tbPrev.cols, c)
            THEN /\ tb.buffer[i + 1][j + 1] = tbPrev.buffer[i + 1][j + 1]
                 /\ tb.colors[i + 1][j + 1] = tbPrev.colors[i + 1][j + 1]
            ELSE /\ tb.buffer[i + 1][j + 1] = " "
                 /\ tb.colors[i + 1][j + 1] = White
       /\ 0 <= tb.cursor_row /\ tb.cursor_row < r /\ tb.cursor_row <= tbPrev.cursor_row
       /\ 0 <= tb.cursor_col /\ tb.cursor_col <= c /\ tb.cursor_col <= tbPrev.cursor_col
       /\ tbPrev.cursor_row < r => tb.cursor_row = tbPrev.cursor_row
       /\ tbPrev.cursor_col < c => tb.cursor_col = tbPrev.cursor_col
       /\ tb.scroll_bottom = r - 1

\* a resize to more rows and fewer columns of a buffer that held a colored
\* character and whose cursor was beyond the new width
C26_Witness ==
  /\ tbLast.op = "resize"
  /\ tbLast.rows > tbPrev.rows
  /\ tbLast.cols < tbPrev.cols
  /\ tbPrev.buffer[1][1] # " "
  /\ tbPrev.colors[1][1] # White
  /\ tbPrev.cursor_col >= tbLast.cols

\* the CSI-stripped form of a stream: the stream without the matches of the
\* CSI grammar, found from left to right
RECURSIVE StripFrom(_, _)
StripFrom(data, pos) ==
  IF pos > Len(data) THEN <<>>
  ELSE LET m == Search(data, pos)
       IN IF m = 0 THEN SubSeq(data, pos, Len(data))
          ELSE SubSeq(data, pos, m - 1) \o StripFrom(data, MatchEnd(data, m) + 1)
StripCsi(data) == StripFrom(data, 1)

\* the final bytes of the CSI sequences of a stream
RECURSIVE FinalsFrom(_, _)
FinalsFrom(data, pos) ==
  LET m == Search(data, pos)
  IN IF m = 0 THEN {}
     ELSE {data[MatchEnd(data, m)]} \cup FinalsFrom(data, MatchEnd(data, m) + 1)
Finals(data) == FinalsFrom(data, 1)
CursorMoving == {"A", "B", "C", "D", "H", "f"}
Erasing == {"J", "K"}

\* streams with color sequences, with a sequence of an unrecognized final,
\* with erase sequences, with a cursor position, and one whose stripped form
\* is itself a CSI sequence
StyledStreams ==
  { <<ESC, "[", "3", "1", "m", "a">>, <<"a", ESC, "[", "3", "1", "m", "b">>, <<"a", LF, ESC, "[", "0", "m", "b">>,
    <<ESC, "[", "x", "a">>, <<"a", ESC, "[", "2", "J">>, <<"a", CR, ESC, "[", "K">>,
    <<"a", ESC, "[", "H", "b">>, <<ESC, ESC, "[", "m", "[", "2", "J">> }

\* C27 as stated: for any stream without cursor-moving sequences, writing the
\* stream with all its CSI sequences removed produces the same character grid
\* as writing the original stream from the same starting state
C27_StrippedSameGrid ==
  \A s \in StyledStreams :
    Finals(s) \cap CursorMoving = {} =>
      Write(tb, StripCsi(s)).buffer = Write(tb, s).buffer

\* the streams of StyledStreams that the amended C27 covers, each with its
\* stripped form
StyledPairs ==
  { <<s, StripCsi(s)>> :
      s \in { x \in StyledStreams :
                /\ Finals(x) \cap (CursorMoving \cup Erasing) = {}
                /\ Finals(StripCsi(x)) = {} } }

\* C27 amended: the same for any stream whose CSI sequences are all color
\* sequences (final m) or have an unrecognized final, so neither move the
\* cursor nor erase, and whose stripped form contains no CSI sequence
C27_StrippedSameGridNoErase ==
  \A p \in StyledPairs : Write(tb, p[2]).buffer = Write(tb, p[1]).buffer

\* a write of a color sequence followed by text has changed the grid
C27_Witness ==
  /\ tbLast.op = "write"
  /\ Finals(tbLast.data) = {"m"}
  /\ StripCsi(tbLast.data) # <<>>
  /\ tb.buffer # tbPrev.buffer
  /\ tb.buffer = Write(tbPrev, StripCsi(tbLast.data)).buffer

\* the cursor after write(ESC [ params final) on the current buffer
CursorAfter(params, final) ==
  LET b == Write(tb, <<ESC, "[">> \o params \o <<final>>)
  IN <<b.cursor_row, b.cursor_col>>

\* C28: CSI H (and f) sets the cursor to the 1-based position given by its
\* parameters r;c, a missing parameter being 1, and the result clamped to the
\* grid: with no parameters the cursor goes to (0, 0), with a row parameter r
\* alone to row min(r, rows) - 1, column 0
C28_CursorPosition ==
  \A final \in {"H", "f"} :
    /\ CursorAfter(<<>>, final) = <<0, 0>>
    /\ \A r \in 1..3 :
         CursorAfter(<<Digits[r + 1]>>, final) = <<Min(r, tb.rows) - 1, 0>>
    /\ \A r \in 1..3, c \in 1..3 :
         CursorAfter(<<Digits[r + 1], ";", Digits[c + 1]>>, final)
           = <<Min(r, tb.rows) - 1, Min(c, tb.cols) - 1>>
    /\ \A c \in 1..3 :
         CursorAfter(<<";", Digits[c + 1]>>, final) = <<0, Min(c, tb.cols) - 1>>

\* the cells CSI n J is to erase, the cursor being at (row, col): 0 from the
\* cursor to the end of the screen, 1 from the start of the screen to the
\* cursor, 2 every cell
EraseRange(b, n) ==
  {<<i, j>> \in (0..(b.rows - 1)) \X (0..(b.cols - 1)) :
     CASE n = 0 -> i > b.cursor_row \/ (i = b.cursor_row /\ j >= b.cursor_col)
       [] n = 1 -> i < b.cursor_row \/ (i = b.cursor_row /\ j <= b.cursor_col)
       [] n = 2 -> TRUE}

\* C29: erase in display (CSI J) leaves the cursor where it was and sets to
\* blank with the default color exactly the cells of its range, every cell
\* outside the range staying as it was, for every cursor position the
\* invariants allow, cursor_col = cols included; the sequence is carried out
\* as a whole, so the text that follows it in the same write is written
C29_EraseInDisplay ==
  \A n \in 0..2 :
    LET b == Write(tb, <<ESC, "[", Digits[n + 1], "J">>)
        next == Write(tb, <<ESC, "[", Digits[n + 1], "J", CR, "b">>)
    IN /\ b.exc = "none"
       /\ b.cursor_row = tb.cursor_row /\ b.cursor_col = tb.cursor_col
       /\ \A i \in 0..(tb.rows - 1), j \in 0..(tb.cols - 1) :
            IF <<i, j>> \in EraseRange(tb, n)
            THEN b.buffer[i + 1][j + 1] = " " /\ b.colors[i + 1][j + 1] = White
            ELSE /\ b.buffer[i + 1][j + 1] = tb.buffer[i + 1][j + 1]
                 /\ b.colors[i + 1][j + 1] = tb.colors[i + 1][j + 1]
       /\ next.buffer[tb.cursor_row + 1][1] = "b"

\* C30: writing exactly cols printable characters starting at column 0 of a
\* row leaves the cursor on the same row at column = cols without scrolling;
\* the next printable character is stored at column 0 of the next row (after
\* a scroll-up when the row was scroll_bottom) and leaves the cursor at
\* column 1
C30_WrapAtCols ==
  tb.cursor_col = 0 =>
    LET full == Write(tb, [j \in 1..tb.cols |-> "a"])
        next == Write(full, <<"b">>)
        bottom == tb.cursor_row = tb.scroll_bottom
    IN /\ full.cursor_row = tb.cursor_row
       /\ full.cursor_col = tb.cols
       /\ full.saved = tb.saved
       /\ \A j \in 1..tb.cols : full.buffer[tb.cursor_row + 1][j] = "a"
       /\ next.cursor_col = 1
       /\ next.cursor_row = IF bottom THEN tb.cursor_row ELSE tb.cursor_row + 1
       /\ next.buffer[next.cursor_row + 1][1] = "b"
       /\ next.saved = IF bottom
                        THEN Append(tb.saved, <<full.buffer[tb.scroll_top + 1],
                                                full.colors[tb.scroll_top + 1]>>)
                        ELSE tb.saved
       /\ ~bottom => next.buffer[tb.cursor_row + 1] = full.buffer[tb.cursor_row + 1]

\* a printable character was written with the cursor one past the end of the
\* bottom row: the screen scrolled and the character is at column 0
C30_Witness ==
  /\ tbLast.op = "write"
  /\ tbLast.data = <<"b">>
  /\ tbPrev.cursor_col = tbPrev.cols
  /\ tbPrev.cursor_row = tbPrev.scroll_bottom
  /\ tbPrev.rows > 1
  /\ Len(tb.saved) = Len(tbPrev.saved) + 1
  /\ tb.cursor_col = 1
  /\ tb.buffer[tb.cursor_row + 1][1] = "b"

\* ---- claims on the reader's lock and on the tabulator ----

\* C31: the session's subscriber lock is never held while bytes are being
\* sent to a subscriber: whenever the reader has a subscriber of its snapshot
\* still to send to, self.lock is free
C31_NoSendUnderLock ==
  \A s \in Sess : (rpc[s] = "send" /\ rsnap[s] # <<>>) => ~LockHeld(s)

\* the next multiple of 8 strictly greater than col
NextTabStop(col) == CHOOSE t \in (col + 1)..(col + TabStop) : t % TabStop = 0

\* the buffer after a newline taken from b: column 0 of the next row, or of
\* the same row with the screen scrolled up when b's row is scroll_bottom
AfterNewline(b, now) ==
  /\ now.cursor_col = 0
  /\ IF b.cursor_row = b.scroll_bottom
     THEN /\ now.cursor_row = b.cursor_row
          /\ now.saved = Append(b.saved, <<b.buffer[b.scroll_top + 1],
                                           b.colors[b.scroll_top + 1]>>)
     ELSE /\ now.cursor_row = b.cursor_row + 1
          /\ now.saved = b.saved
          /\ now.buffer = b.buffer

\* the buffer after the cursor of b has moved to column col of its row
AtColumn(b, now, col) ==
  /\ now.cursor_col = col
  /\ now.cursor_row = b.cursor_row
  /\ now.saved = b.saved
  /\ now.buffer = b.buffer

\* C32 as stated: a tab moves the cursor column to the next multiple of 8
\* strictly greater than the current column, and a newline is performed only
\* if that column would exceed cols; a tab at column cols-1 triggers a
\* newline, and a tab whose target column equals cols leaves the cursor at
\* column cols on the same row
C32_TabNewlineBeyondCols ==
  LET now == Write(tb, <<TAB>>)
      target == NextTabStop(tb.cursor_col)
  IN /\ now.exc = "none"
     /\ IF target > tb.cols THEN AfterNewline(tb, now) ELSE AtColumn(tb, now, target)
     /\ tb.cursor_col = tb.cols - 1 => AfterNewline(tb, now)

\* C32 amended: a tab moves the cursor column to the next multiple of 8
\* strictly greater than the current column when that column is less than
\* cols, and performs a newline when it equals or exceeds cols; so a tab at
\* column cols-1 always triggers a newline, and a tab whose target column
\* equals cols ends at column 0 after the newline
C32_TabNewlineAtCols ==
  LET now == Write(tb, <<TAB>>)
      target == NextTabStop(tb.cursor_col)
  IN /\ now.exc = "none"
     /\ IF target >= tb.cols THEN AfterNewline(tb, now) ELSE AtColumn(tb, now, target)
     /\ tb.cursor_col = tb.cols - 1 => AfterNewline(tb, now)

\* a tab was written at column cols-1 of a row whose width is a multiple of
\* 8, so that its target column equals cols, and the newline was performed
C32_Witness ==
  /\ tbLast.op = "write"
  /\ tbLast.data = <<TAB>>
  /\ tbPrev.cursor_col = tbPrev.cols - 1
  /\ NextTabStop(tbPrev.cursor_col) = tbPrev.cols
  /\ tb.cursor_col = 0
  /\ tb.exc = "none"

\* ---- claims on erase in line and on malformed sequences ----

\* the columns of the cursor's row that CSI n K erases
LineRange(b, n) ==
  {j \in 0..(b.cols - 1) :
     CASE n = 0 -> j >= b.cursor_col
       [] n = 1 -> j <= b.cursor_col
       [] n = 2 -> TRUE}

\* C33: erase in line (CSI K) changes only cells of the cursor's row: mode 0
\* blanks columns cursor_col..cols-1, mode 1 blanks columns 0..cursor_col,
\* mode 2 blanks the whole row; the cursor and all other rows are unchanged,
\* for every cursor position the invariants allow, cursor_col = cols
\* included, and the erase completes without an error
C33_EraseInLine ==
  \A n \in 0..2 :
    LET b == Write(tb, <<ESC, "[", Digits[n + 1], "K">>)
    IN /\ b.exc = "none"
       /\ b.cursor_row = tb.cursor_row /\ b.cursor_col = tb.cursor_col
       /\ b.saved = tb.saved
       /\ \A i \in 0..(tb.rows - 1), j \in 0..(tb.cols - 1) :
            IF i = tb.cursor_row /\ j \in LineRange(tb, n)
            THEN b.buffer[i + 1][j + 1] = " " /\ b.colors[i + 1][j + 1] = White
            ELSE /\ b.buffer[i + 1][j + 1] = tb.buffer[i + 1][j + 1]
                 /\ b.colors[i + 1][j + 1] = tb.colors[i + 1][j + 1]

\* sequences matching ESC [ [0-9;]* letter with an unrecognized final, with
\* several parameters, with an empty parameter and with parameter 0
OddSequences ==
  { <<ESC, "[", "x">>, <<ESC, "[", "5", "n">>,
    <<ESC, "[", "1", ";", "1", "B">>, <<ESC, "[", "1", ";", "2", "H">>,
    <<ESC, "[", ";", "2", "H">>, <<ESC, "[", ";", "K">>,
    <<ESC, "[", "0", "A">>, <<ESC, "[", "0", "J">>, <<ESC, "[", "0", "m">> }

\* C34: from every buffer state that satisfies the invariants write()
\* processes the whole string without raising an error: no call of write has
\* ended with an exception, and a sequence that is unrecognized or carries
\* unexpected parameters is consumed without aborting, so that the character
\* after it in the same write is stored at the cursor
C34_WriteNeverRaises ==
  /\ tbLast.op = "write" => tb.exc = "none"
  /\ \A q \in OddSequences :
       LET b == Write(tb, q \o <<"b">>)
       IN /\ b.exc = "none"
          /\ b.cursor_col >= 1
          /\ b.buffer[b.cursor_row + 1][b.cursor_col] = "b"

\* ---- claims on the registry and closed sessions ----

\* close() has started on session s: a caller of close is past its first
\* statements, or a call of close has returned
CloseStarted(s) ==
  \/ closedRet[s]
  \/ \E k \in DOMAIN cpc : cpc[k] = "closeB" /\ ccur[k] = s

\* C35: the registry never maps a session id to a session on which close()
\* has already started, and in every interleaving of close_session or stop
\* with a client's connect no client is attached to a session on which
\* close() has started
C35_NoClosedSessionInRegistry ==
  /\ \A id \in SessionIds :
       sessions[id] # NoSession => ~CloseStarted(sessions[id])
  /\ \A c \in Socks, s \in Sess : Attached(c, s) => ~CloseStarted(s)

====
